---- MODULE Spec2Model ----
(***************************************************************************)
(* The bridge layer of devflow's desktop shell: the stdio transport client *)
(* (bridge/rpc.rs), the network transport client (bridge/tcp.rs) and the   *)
(* connection supervisor BridgeManager (bridge/sidecar.rs).                *)
(*                                                                         *)
(* The supervisor and its clients are shared between threads and every     *)
(* method takes &self; each field has a lock of its own.  An action is     *)
(* what one thread does under one acquisition of one lock, or in one       *)
(* system call that can wait.  What the operating system and the backend   *)
(* decide (whether a spawn or a connect succeeds, whether a write or a     *)
(* read fails, which line is next on the pipe) is an input of the step,    *)
(* drawn from a small set.                                                 *)
(***************************************************************************)
EXTENDS Integers, Sequences, FiniteSets, TLC

\* ------------------------------------------------------------------ bounds
MaxId   == 3   \* request ids the two transport clients hand out in one run
MaxConn == 2   \* child processes spawned and sockets opened in one run

\* --------------------------------------------------------- Option::None
NoChild == 0    \* process: None, stdin: None, stdout: None
NoSock  == 0    \* stream: None, reader: None
NoId    == -1   \* RpcResponse.id: None

\* ------------------------------------------------------------ wire lines
\* A JSON member on the wire is absent, the literal null, or a value.
Absent == "absent"
JNull  == "null"

\* The line read_line hands to serde_json::from_str:
\*   kind    "eof" (nothing read), "garbage" (not JSON), "json" (an object)
\*   jsonrpc TRUE when the object has the string member "jsonrpc"
\*   result  Absent, JNull or a value
\*   error   Absent, JNull or "obj" (an object: code, message, optional data)
\*   id      Absent, JNull or "num" (the number id_n)
Line(kind, jsonrpc, result, error, code, message, data, id_tag, id_n) ==
    [kind |-> kind, jsonrpc |-> jsonrpc, result |-> result, error |-> error,
     code |-> code, message |-> message, data |-> data,
     id_tag |-> id_tag, id_n |-> id_n]

NoLine == Line("none", FALSE, Absent, Absent, 0, "", Absent, Absent, 0)

\* <<result, error, data>> of the decodable lines: a result, a null result,
\* neither, an error object without and with data, an error object beside
\* a result.
Payloads ==
    {<<"pong", Absent, Absent>>, <<JNull, Absent, Absent>>,
     <<Absent, Absent, Absent>>, <<Absent, "obj", Absent>>,
     <<Absent, "obj", "detail">>, <<"pong", "obj", Absent>>}

\* The payloads also sent under an id that is not the request's.
StrayPayloads ==
    {<<"pong", Absent, Absent>>, <<Absent, Absent, Absent>>,
     <<Absent, "obj", "detail">>}

\* The ids the line a call with request id reads may carry besides id: none,
\* null, and every other number: the line may answer a request written
\* before or after on the same pipe, by this thread or by another, or a line
\* that was no request (which the backend reports under the id 0).
StrayIds(id) ==
    {<<Absent, 0>>, <<JNull, 0>>}
    \cup {<<"num", n>> : n \in (0..(MaxId + 1)) \ {id}}

JsonLine(p, i) ==
    Line("json", TRUE, p[1], p[2],
         IF p[2] = "obj" THEN -32601 ELSE 0,
         IF p[2] = "obj" THEN "Method not found" ELSE "",
         p[3], i[1], i[2])

\* The lines read_line may hand to a call with request id: the next line of
\* the pipe or socket, whoever it was written for.
Lines(id) ==
    {Line("eof", FALSE, Absent, Absent, 0, "", Absent, Absent, 0),
     Line("garbage", FALSE, Absent, Absent, 0, "", Absent, Absent, 0),
     Line("json", FALSE, "pong", Absent, 0, "", Absent, "num", id)}
    \cup {JsonLine(p, <<"num", id>>) : p \in Payloads}
    \cup {JsonLine(p, i) : p \in StrayPayloads, i \in StrayIds(id)}

\* Option<T> as serde decodes it: an absent member and null are both None.
None == "None"
DecodeOption(member) == IF member \in {Absent, JNull} THEN None ELSE member

DecodeId(id_tag, id_n) == IF id_tag = "num" THEN id_n ELSE NoId

\* serde_json::from_str::<RpcResponse>: fails on text that is not a JSON
\* object and on an object without the required member "jsonrpc".
Decodable(line) ==
    /\ line.kind = "json"
    /\ line.jsonrpc

RpcResponse(line) ==
    [result    |-> DecodeOption(line.result),
     has_error |-> line.error = "obj",
     code      |-> IF line.error = "obj" THEN line.code ELSE 0,
     message   |-> IF line.error = "obj" THEN line.message ELSE "",
     data      |-> IF line.error = "obj" THEN DecodeOption(line.data) ELSE None,
     id        |-> DecodeId(line.id_tag, line.id_n)]

\* ------------------------------------------------- RpcError / TcpRpcError
\* One record shape for Result<Value, RpcError> and Result<Value, TcpRpcError>.
\*   kind    "Ok" or the variant: Io, Json, Rpc, NotConnected,
\*           InvalidResponse, ConnectionFailed, Timeout
\*   value   the result of an Ok
\*   code, message, data   of an Rpc
\*   detail, resp_id, req_id   what an InvalidResponse's text says
Result(kind, value, code, message, data, detail, resp_id, req_id) ==
    [kind |-> kind, value |-> value, code |-> code, message |-> message,
     data |-> data, detail |-> detail, resp_id |-> resp_id, req_id |-> req_id]

Ok(value)       == Result("Ok", value, 0, "", None, "", NoId, NoId)
Err(kind)       == Result(kind, None, 0, "", None, "", NoId, NoId)
NoResult        == Err("none")
RpcErr(r)       == Result("Rpc", None, r.code, r.message, r.data, "", NoId, NoId)
\* Io(#[from] std::io::Error): detail names the io::Error the variant wraps.
IoErr(e)        == Result("Io", None, 0, "", None, e, NoId, NoId)
IdMismatch(shown, id) ==
    Result("InvalidResponse", None, 0, "", None, "id mismatch", shown, id)
NeitherResultNorError ==
    Result("InvalidResponse", None, 0, "", None, "neither result nor error", NoId, NoId)

\* What read_line of a call with request id does: a line is read, the read
\* fails, or (network) the read exceeds the read timeout.  <<io, line>> pairs.
StdioReplies(id) ==
    {<<"read_err", NoLine>>} \cup {<<"ok", l>> : l \in Lines(id)}

TcpReplies(id) == StdioReplies(id) \cup {<<"read_timeout", NoLine>>}

\* "{}" of response.id.unwrap_or(0)
RpcClient_shown_id(id) == IF id = NoId THEN 0 ELSE id

\* "{:?}" of response.id
TcpRpcClient_shown_id(id) == id

\* Mutant of RpcClient_check: the response id is not compared.
RpcClient_check_no_id(line, id) ==
    IF ~Decodable(line) THEN Err("Json")
    ELSE LET response == RpcResponse(line) IN
         IF response.has_error THEN RpcErr(response)
         ELSE IF response.result = None THEN NeitherResultNorError
         ELSE Ok(response.result)

\* rpc.rs 120-142: the decoded line against the request id.
RpcClient_check(line, id) ==
    IF ~Decodable(line) THEN Err("Json")
    ELSE LET response == RpcResponse(line) IN
         IF response.has_error THEN RpcErr(response)
         ELSE IF response.id # id
              THEN IdMismatch(RpcClient_shown_id(response.id), id)
         ELSE IF response.result = None THEN NeitherResultNorError
         ELSE Ok(response.result)

\* Mutant of TcpRpcClient_check: a response without a result is a success
\* with an empty result.
TcpRpcClient_check_empty_ok(line, id) ==
    IF ~Decodable(line) THEN Err("Json")
    ELSE LET response == RpcResponse(line) IN
         IF response.has_error THEN RpcErr(response)
         ELSE IF response.id # id
              THEN IdMismatch(TcpRpcClient_shown_id(response.id), id)
         ELSE Ok(response.result)

\* Mutant of TcpRpcClient_check: a result is a success whatever id the
\* response carries.
TcpRpcClient_check_any_id(line, id) ==
    IF ~Decodable(line) THEN Err("Json")
    ELSE LET response == RpcResponse(line) IN
         IF response.has_error THEN RpcErr(response)
         ELSE IF response.result = None THEN NeitherResultNorError
         ELSE Ok(response.result)

\* tcp.rs 197-218
TcpRpcClient_check(line, id) ==
    IF ~Decodable(line) THEN Err("Json")
    ELSE LET response == RpcResponse(line) IN
         IF response.has_error THEN RpcErr(response)
         ELSE IF response.id # id
              THEN IdMismatch(TcpRpcClient_shown_id(response.id), id)
         ELSE IF response.result = None THEN NeitherResultNorError
         ELSE Ok(response.result)

\* ------------------------------------------------------------ BridgeError
\* Result<_, BridgeError> of the supervisor's operations.
\*   kind   "Ok", or the variant: StartFailed, NotRunning, Rpc, TcpRpc
\*   text   StartFailed: the step that failed; get_state: the state
\*   inner  the transport client's Result the value or the error comes from
BridgeResult(kind, text, inner) == [kind |-> kind, text |-> text, inner |-> inner]

Unit                     == BridgeResult("Ok", "", NoResult)
NotRunning               == BridgeResult("NotRunning", "", NoResult)
StartFailed(step, cause) == BridgeResult("StartFailed", step, cause)

\* A handler's outcome: the supervisor's fields afterwards, what it returns,
\* and the line it read from the backend (NoLine when it read none).
Outcome(sv, ret, reply) == [sv |-> sv, ret |-> ret, reply |-> reply]


\* RpcRequest::new, and the channel the line is written to.
RpcRequest(chan, method, params, id) ==
    [chan |-> chan, jsonrpc |-> "2.0", method |-> method, params |-> params, id |-> id]

NoRequest == RpcRequest("none", "", None, NoId)

\* A line that reached the backend and is no request: the text of a request
\* behind text an earlier write left without its line feed.
Unparsed(chan) == RpcRequest(chan, "unparsed", None, NoId)

\* The line the backend receives when the line feed of request rq is written
\* behind texts (the ids of the requests they belong to, rq's own last).
line_written(texts, rq) == IF texts = <<rq.id>> THEN rq ELSE Unparsed(rq.chan)

\* A socket stays open while a handle of it exists (stream, or the reader's
\* clone); the supervisor's client is the only holder.
Release(sv) == [sv EXCEPT !.sockets = @ \cap {sv.stream, sv.reader}]

\* --------------------------------------------------------------- RpcClient
\* *self.stdin.lock().unwrap() = h: the pipe the field held is closed, and
\* text written to it without a line feed is lost with it.
RpcClient_set_stdin(sv, h) ==
    [sv EXCEPT !.stdin = h, !.unfinished.stdio = <<>>]

\* *self.stdout.lock().unwrap() = h
RpcClient_set_stdout(sv, h) == [sv EXCEPT !.stdout = h]

RpcClient_connect(sv, child) ==
    RpcClient_set_stdout(RpcClient_set_stdin(sv, child), child)

\* Mutant of RpcClient_disconnect: only the read handle is dropped.
RpcClient_disconnect_half(sv) == RpcClient_set_stdout(sv, NoChild)

RpcClient_disconnect(sv) ==
    RpcClient_set_stdout(RpcClient_set_stdin(sv, NoChild), NoChild)

RpcClient_is_connected(sv) == sv.stdin # NoChild

\* ------------------------------------------------------------ TcpRpcClient
\* TcpRpcClient::connect up to its stores (tcp.rs 117-139).  conn: "ok",
\* "refused" (the address does not parse or connect_timeout fails:
\* ConnectionFailed) or "option_err" (a socket option or try_clone fails
\* after the connect: Io; the new stream is dropped).
TcpRpcClient_open(sv, conn) ==
    IF conn = "refused" THEN Outcome(sv, Err("ConnectionFailed"), NoLine)
    ELSE IF conn = "option_err"
         THEN Outcome([sv EXCEPT !.opened = @ + 1], Err("Io"), NoLine)
    ELSE Outcome([sv EXCEPT !.opened = @ + 1, !.sockets = @ \cup {sv.opened + 1}],
                 Ok(None), NoLine)

ConnOutcomes == {"ok", "refused", "option_err"}

\* TcpRpcClient::connect by a thread that no other thread runs beside.
TcpRpcClient_connect(sv, conn) ==
    LET c == TcpRpcClient_open(sv, conn) IN
    IF c.ret.kind # "Ok" THEN c
    ELSE Outcome(Release([c.sv EXCEPT !.stream = c.sv.opened,
                                      !.reader = c.sv.opened,
                                      !.unfinished.tcp = <<>>]),
                 Ok(None), NoLine)

\* Mutant of TcpRpcClient_disconnect: one call drops one handle, the stream
\* first.
TcpRpcClient_disconnect_one(sv) ==
    IF sv.stream # NoSock
    THEN Release([sv EXCEPT !.stream = NoSock, !.unfinished.tcp = <<>>])
    ELSE Release([sv EXCEPT !.reader = NoSock])

TcpRpcClient_disconnect(sv) ==
    Release([sv EXCEPT !.stream = NoSock, !.reader = NoSock,
                       !.unfinished.tcp = <<>>])

TcpRpcClient_is_connected(sv) == sv.stream # NoSock

\* ----------------------------------------------------------- BridgeManager
\* BridgeState and ConnectionMode
BridgeState    == {"Stopped", "Starting", "Running", "Error"}
ConnectionMode == {"Subprocess", "Tcp"}

\* The <<method, params>> the application's commands call with.
Requests == {<<"system.ping", None>>, <<"config.get", "params">>}

\* *self.state.lock().unwrap() = s
SetState(sv, s) == [sv EXCEPT !.state = s]

\* The values the application configures: backend_setup.rs passes the
\* interpreter of the virtual environment and the host and port of the
\* service.
PythonPaths == {"venv/bin/python"}
TcpConfigs  == {[host |-> "172.20.0.2", port |-> 9876]}

set_mode(sv, m) == [sv EXCEPT !.mode = m]

set_tcp_config(sv, host, port) ==
    [sv EXCEPT !.tcp_config = [host |-> host, port |-> port]]

set_python_path(sv, path) == [sv EXCEPT !.python_path = path]

\* Mutant of get_state: it answers with the state of a new supervisor.
get_state_stale(sv) == "Stopped"

get_state(sv) == sv.state

\* Mutant of KillProcess: the Child is taken out of the field and dropped
\* without kill().
KillProcess_no_kill(sv) == [sv EXCEPT !.process = NoChild]

\* child.kill(); child.wait() on the Child taken out of self.process
KillProcess(sv) ==
    IF sv.process = NoChild THEN sv
    ELSE [sv EXCEPT !.children = @ \ {sv.process}, !.process = NoChild]

\* Mutant of stop: a supervisor in Error stays in Error.
stop_keeps_error(sv) ==
    LET s1 == IF sv.mode = "Subprocess"
              THEN KillProcess(RpcClient_disconnect(sv))
              ELSE TcpRpcClient_disconnect(sv)
    IN  IF sv.state = "Error" THEN s1 ELSE SetState(s1, "Stopped")

stop(sv) ==
    LET s1 == IF sv.mode = "Subprocess"
              THEN KillProcess(RpcClient_disconnect(sv))
              ELSE TcpRpcClient_disconnect(sv)
    IN  SetState(s1, "Stopped")

\* Mutant of already_running: start never returns early.
already_running_never(sv) == FALSE

\* if *state == BridgeState::Running { return Ok(()); }
already_running(sv) == sv.state = "Running"

\* Mutant of rpc_died: an I/O error no longer counts as the bridge having died.
rpc_died_not_io(kind) == kind = "NotConnected"

\* Mutant of rpc_died: only an I/O error counts as the bridge having died.
rpc_died_only_io(kind) == kind = "Io"

\* matches!(e, RpcError::Io(_) | RpcError::NotConnected): the bridge died
rpc_died(kind) == kind \in {"Io", "NotConnected"}

\* Mutant of tcp_died: every error counts as the connection having died.
tcp_died_any(kind) == kind # "Ok"

\* Mutant of tcp_died: only NotConnected counts as the connection having
\* died.
tcp_died_not_io(kind) == kind = "NotConnected"

\* matches!(e, TcpRpcError::Io(_) | TcpRpcError::NotConnected): the
\* connection died
tcp_died(kind) == kind \in {"Io", "NotConnected"}

\* Mutant of fetch_add: the counter is read and not advanced.
fetch_add_stale(v) == v

\* request_id.fetch_add(1, Ordering::SeqCst): the counter afterwards (the
\* call returns the value before).  The counter is 64 bits wide and the runs
\* here stay far below its wrap-around.
fetch_add(v) == v + 1

\* The map_err of call(): whether the error of the client of mode m says
\* the channel died.
channel_died(m, kind) ==
    IF m = "Subprocess" THEN rpc_died(kind) ELSE tcp_died(kind)

\* What call() returns when the client of mode m returned r.
call_result(m, r) ==
    IF r.kind = "Ok" THEN BridgeResult("Ok", "", r)
    ELSE BridgeResult(IF m = "Subprocess" THEN "Rpc" ELSE "TcpRpc", "", r)

\* Mutant of not_running: call() is never refused.
not_running_never(sv) == FALSE

\* if self.get_state() != BridgeState::Running
not_running(sv) == get_state(sv) # "Running"

\* Mutant of after_call: a call() that failed takes a new request id and
\* sends again.
after_call_retrying(o, m, r) ==
    IF o = "client_call" THEN "idle"
    ELSE IF o = "call"
    THEN IF r.kind # "Ok" THEN "fetch_add" ELSE "idle"
    ELSE IF r.kind = "Ok" THEN "set_running"
    ELSE IF m = "Subprocess" THEN "stop_mode"
    ELSE "ping_disc_stream"

\* Where a thread inside method o goes when the client of mode m has
\* returned r: a thread that called the client itself has its result;
\* call() returns unless the error says the channel died, which it records
\* first; start() stores Running, or tears down and stores Error.
after_call(o, m, r) ==
    IF o = "client_call" THEN "idle"
    ELSE IF o = "call"
    THEN IF r.kind # "Ok" /\ channel_died(m, r.kind) THEN "demote" ELSE "idle"
    ELSE IF r.kind = "Ok" THEN "set_running"
    ELSE IF m = "Subprocess" THEN "stop_mode"
    ELSE "ping_disc_stream"

\* What read_line and the checks after it make of <<io, line>>.
read_result(m, io, line, id) ==
    IF io = "read_err" THEN IoErr("read failed")
    ELSE IF io = "read_timeout" THEN IoErr("read timed out")
    ELSE IF m = "Subprocess" THEN RpcClient_check(line, id)
    ELSE TcpRpcClient_check(line, id)

\* <<io, line>> of the read block of a call with request id.
ReadInputs(m, id) ==
    IF m = "Subprocess" THEN StdioReplies(id) ELSE TcpReplies(id)

\* The fields of a BridgeManager are dropped in the order they are declared,
\* held the clients whose Arc was cloned and is kept outside it.  The fields
\* before tcp_client: dropping the Child handle does not kill the process;
\* the manager's Arc of the stdio client is one reference to it, and a
\* client of which no other reference exists is dropped with the handles it
\* holds, while a client that is held lives on with them.
drop_fields_to_tcp(sv, held) ==
    LET s1 == [sv EXCEPT !.process = NoChild]
    IN  IF "Subprocess" \in held THEN s1 ELSE RpcClient_disconnect(s1)

\* All the fields: a network client of which no other reference exists is
\* dropped, and its own Drop runs disconnect().
drop_fields(sv, held) ==
    LET s2 == drop_fields_to_tcp(sv, held)
    IN  IF "Tcp" \in held THEN s2 ELSE TcpRpcClient_disconnect(s2)

\* impl Drop for BridgeManager: stop(), then the fields are dropped.
drop(sv, held) == drop_fields(stop(sv), held)

\* ------------------------------------------------------------------ state
VARIABLES
    state,            \* BridgeManager.state
    mode,             \* BridgeManager.mode
    process,          \* BridgeManager.process: the Child held, or NoChild
    stdin,            \* RpcClient.stdin: the child whose pipe it is, or NoChild
    stdout,           \* RpcClient.stdout
    rpc_request_id,   \* RpcClient.request_id
    stream,           \* TcpRpcClient.stream: the socket, or NoSock
    reader,           \* TcpRpcClient.reader
    tcp_request_id,   \* TcpRpcClient.request_id
    children,         \* the spawned child processes that are alive
    sockets,          \* the opened sockets that are open
    spawned,          \* how many child processes were spawned
    opened,           \* how many sockets were opened
    written,          \* how many request lines were written
    request,          \* the request line written last, or NoRequest
    op,               \* the operation performed last
    ret,              \* what it returned
    reply,            \* the line it read from the backend, or NoLine
    dropped,          \* the supervisor is being dropped or is gone: no method
                      \* of it can be entered any more
    clones,           \* the transport clients (named by their mode) of which
                      \* an Arc handed out by rpc_client() or tcp_client()
                      \* is held outside the supervisor
    python_path,      \* BridgeManager.python_path, or None
    tcp_config,       \* BridgeManager.tcp_config, or None
    unfinished,       \* per transport client: the requests whose text was
                      \* written to its write handle since the last line
                      \* feed (their ids, in order)
    thread,           \* per thread: the method it is inside and where
    input,            \* the arguments a function of backend/ is applied to
    output            \* the value it returned

vars == <<state, mode, process, stdin, stdout, rpc_request_id, stream, reader,
          tcp_request_id, children, sockets, spawned, opened, written, request,
          op, ret, reply, dropped, clones, python_path, tcp_config,
          unfinished, thread, input, output>>

\* The supervisor's fields and the resources behind them, as one record.
SV ==
    [state |-> state, mode |-> mode, process |-> process,
     stdin |-> stdin, stdout |-> stdout, rpc_request_id |-> rpc_request_id,
     stream |-> stream, reader |-> reader, tcp_request_id |-> tcp_request_id,
     children |-> children, sockets |-> sockets,
     spawned |-> spawned, opened |-> opened,
     written |-> written, request |-> request,
     python_path |-> python_path, tcp_config |-> tcp_config,
     unfinished |-> unfinished]

\* The same record in the next state.
SVn ==
    [state |-> state', mode |-> mode', process |-> process',
     stdin |-> stdin', stdout |-> stdout', rpc_request_id |-> rpc_request_id',
     stream |-> stream', reader |-> reader', tcp_request_id |-> tcp_request_id',
     children |-> children', sockets |-> sockets',
     spawned |-> spawned', opened |-> opened',
     written |-> written', request |-> request',
     python_path |-> python_path', tcp_config |-> tcp_config',
     unfinished |-> unfinished']

\* The run stays within the bounds.
Within(sv) ==
    /\ (sv.rpc_request_id - 1) + (sv.tcp_request_id - 1) <= MaxId
    /\ sv.spawned + sv.opened <= MaxConn

\* The threads that share the supervisor and its transport clients (they
\* are handed out as Arc and every method takes &self).
Threads == {"t1", "t2", "t3"}

\* ------------------------------------------- the supervisor, its threads
\* The manager is shared (Arc<BridgeManager> in the application's state) and
\* every method takes &self, so start(), stop() and call() run on threads of
\* their own.  Each field has a lock of its own, taken for one statement;
\* one action below is what a thread does under one acquisition of one lock
\* (or one atomic instruction), together with the statements before it that
\* touch nothing shared.  The thread keeps the method's local variables.
\*   pc       the statement the thread is at
\*   op       the method it is inside: start, stop or call of the
\*            supervisor; client_call, connect or disconnect when it is
\*            called on the transport client itself
\*   mode     let mode = *self.mode.lock().unwrap()
\*   child    let mut child (start_subprocess), let stream (connect)
\*   request  let request = RpcRequest::new(method, params, id)
\*   result   what the transport client's call returned
ThreadIdle ==
    [pc |-> "idle", op |-> "none", mode |-> "none", child |-> NoChild,
     request |-> NoRequest, result |-> NoResult]

\* The fields of the next state are those of sv.
Store(sv) ==
    /\ state' = sv.state
    /\ mode' = sv.mode
    /\ process' = sv.process
    /\ stdin' = sv.stdin
    /\ stdout' = sv.stdout
    /\ rpc_request_id' = sv.rpc_request_id
    /\ stream' = sv.stream
    /\ reader' = sv.reader
    /\ tcp_request_id' = sv.tcp_request_id
    /\ children' = sv.children
    /\ sockets' = sv.sockets
    /\ spawned' = sv.spawned
    /\ opened' = sv.opened
    /\ written' = sv.written
    /\ request' = sv.request
    /\ python_path' = sv.python_path
    /\ tcp_config' = sv.tcp_config
    /\ unfinished' = sv.unfinished

\* The same, by a method that is one step.
Assign(sv) ==
    /\ UNCHANGED <<thread, input, output>>
    /\ Store(sv)

Apply(name, out) ==
    /\ Within(out.sv)
    /\ Assign(out.sv)
    /\ op' = name
    /\ ret' = out.ret
    /\ reply' = out.reply
    /\ UNCHANGED <<dropped, clones>>

\* No function of backend/ was applied.
NoInput  == <<>>
NoOutput == [fn |-> "none"]

\* BridgeManager::new / with_mode; RpcClient::new; TcpRpcClient::new
Constructed ==
    /\ state = "Stopped"
    /\ mode \in ConnectionMode
    /\ process = NoChild
    /\ stdin = NoChild
    /\ stdout = NoChild
    /\ rpc_request_id = 1
    /\ stream = NoSock
    /\ reader = NoSock
    /\ tcp_request_id = 1
    /\ children = {}
    /\ sockets = {}
    /\ spawned = 0
    /\ opened = 0
    /\ written = 0
    /\ request = NoRequest
    /\ op = "new"
    /\ ret = Unit
    /\ reply = NoLine
    /\ dropped = FALSE
    /\ clones = {}
    /\ python_path = None
    /\ tcp_config = None
    /\ unfinished = [stdio |-> <<>>, tcp |-> <<>>]
    /\ thread = [t \in Threads |-> ThreadIdle]

\* A supervisor and its clients as constructed.
Init ==
    /\ Constructed
    /\ input = NoInput
    /\ output = NoOutput

SetMode ==
    /\ ~dropped
    /\ \E m \in ConnectionMode : Apply("set_mode", Outcome(set_mode(SV, m), Unit, NoLine))

SetTcpConfig ==
    /\ ~dropped
    /\ \E c \in TcpConfigs :
         Apply("set_tcp_config", Outcome(set_tcp_config(SV, c.host, c.port), Unit, NoLine))

SetPythonPath ==
    /\ ~dropped
    /\ \E path \in PythonPaths :
         Apply("set_python_path", Outcome(set_python_path(SV, path), Unit, NoLine))

GetState ==
    /\ ~dropped
    /\ Apply("get_state", Outcome(SV, BridgeResult("Ok", get_state(SV), NoResult), NoLine))

\* rpc_client() and tcp_client(): Arc::clone of the client, which the caller
\* keeps.  Whoever holds it calls the client's own methods, whatever the
\* mode and whatever becomes of the supervisor.  More clones of a client that
\* is held already change nothing.
TakeClient ==
    /\ ~dropped
    /\ \E m \in ConnectionMode \ clones :
         /\ clones' = clones \cup {m}
         /\ op' = IF m = "Subprocess" THEN "rpc_client" ELSE "tcp_client"
    /\ ret' = Unit
    /\ reply' = NoLine
    /\ Assign(SV)
    /\ dropped' = dropped

\* ------------------------------------------------ the steps of a thread
\* No method returned in the step.
NoReturn == BridgeResult("none", "", NoResult)

\* Thread t is at rec after the step; no method returned in it.
Continues(t, rec, line) ==
    /\ thread' = [thread EXCEPT ![t] = rec]
    /\ op' = "none"
    /\ ret' = NoReturn
    /\ reply' = line

\* The method thread t is inside returns r in the step.
Returns(t, o, r, line) ==
    /\ thread' = [thread EXCEPT ![t] = ThreadIdle]
    /\ op' = o
    /\ ret' = r
    /\ reply' = line

\* What a step of a thread leaves alone.
ThreadFrame == UNCHANGED <<dropped, clones, input, output>>

\* The fields of the transport client of mode m.
write_handle(sv, m) == IF m = "Subprocess" THEN sv.stdin ELSE sv.stream
read_handle(sv, m)  == IF m = "Subprocess" THEN sv.stdout ELSE sv.reader
request_id(sv, m) ==
    IF m = "Subprocess" THEN sv.rpc_request_id ELSE sv.tcp_request_id
channel(m) == IF m = "Subprocess" THEN "stdio" ELSE "tcp"

\* Mutant of WriteGuardFree: the guard of the write handle excludes nobody.
WriteGuardFree_always(m) == TRUE

\* The guard of the write handle of the client of mode m is free: no thread
\* is inside the client's send block, which keeps the guard while writeln!
\* writes and waits.
WriteGuardFree(m) ==
    \A u \in Threads :
       ~(thread[u].pc \in {"write_json", "write_newline"} /\ thread[u].mode = m)

\* The guard of the read handle of the client of mode m is free: no thread
\* is inside the client's read block, which keeps the guard while read_line
\* waits.
ReadGuardFree(m) ==
    \A u \in Threads : ~(thread[u].pc = "reading" /\ thread[u].mode = m)

\* The request ids handed out so far by the two transport clients, and the
\* connections made so far.
IdsUsed == (rpc_request_id - 1) + (tcp_request_id - 1)
Connections == spawned + opened

\* The sockets a thread inside connect() holds in its local variables stream
\* and reader.
Held ==
    {thread[u].child :
        u \in {v \in Threads : thread[v].pc \in {"connect_stream", "connect_reader"}}}

\* *self.stream.lock().unwrap() = h and *self.reader.lock().unwrap() = h: the
\* handle the field held is dropped, and a socket nobody holds any more is
\* closed.
TcpRpcClient_set_stream(sv, h) ==
    [sv EXCEPT !.stream = h, !.sockets = @ \cap ({h, sv.reader} \cup Held),
               !.unfinished.tcp = <<>>]
TcpRpcClient_set_reader(sv, h) ==
    [sv EXCEPT !.reader = h, !.sockets = @ \cap ({sv.stream, h} \cup Held)]

\* What a method of a transport client returns to the thread that called it
\* on the client itself.
client_result(r) == BridgeResult("Client", "", r)

\* ---- start()
\* let mode = *self.mode.lock().unwrap(); match mode { .. }
StartMode(t) ==
    /\ ~dropped
    /\ thread[t].pc = "idle"
    /\ Store(SV)
    /\ Continues(t, [ThreadIdle EXCEPT !.pc = "start_check", !.op = "start",
                                      !.mode = mode], NoLine)
    /\ ThreadFrame

\* let mut state = self.state.lock().unwrap();
\* if *state == BridgeState::Running { return Ok(()); }
\* *state = BridgeState::Starting; drop(state);
StartCheck(t) ==
    /\ thread[t].pc = "start_check"
    /\ IF already_running(SV)
       THEN /\ Store(SV)
            /\ Returns(t, "start", Unit, NoLine)
       ELSE /\ Store(SetState(SV, "Starting"))
            /\ Continues(t, [thread[t] EXCEPT !.pc =
                               IF thread[t].mode = "Subprocess"
                               THEN "spawn" ELSE "tcp_connect"], NoLine)
    /\ ThreadFrame

\* The interpreter is read from python_path and the child is spawned with
\* piped stdin and stdout; a spawn that fails returns StartFailed at once.
Spawn(t) ==
    /\ thread[t].pc = "spawn"
    /\ \E spawn \in BOOLEAN :
         IF ~spawn
         THEN /\ Store(SV)
              /\ Returns(t, "start", StartFailed("spawn", Err("Io")), NoLine)
         ELSE /\ Connections < MaxConn
              /\ Store([SV EXCEPT !.spawned = @ + 1,
                                  !.children = @ \cup {spawned + 1}])
              /\ Continues(t, [thread[t] EXCEPT !.pc = "connect_stdin",
                                               !.child = spawned + 1], NoLine)
    /\ ThreadFrame

\* ---- connect() of the transport clients, called by start() and by a
\* thread that holds the client
\* A thread that holds a client enters its connect: RpcClient::connect(stdin,
\* stdout) with the pipes of a child that was spawned for it, or
\* TcpRpcClient::connect(host, port).
ConnectBegin(t) ==
    /\ thread[t].pc = "idle"
    /\ \E m \in clones :
         IF m = "Subprocess"
         THEN /\ Connections < MaxConn
              /\ Store([SV EXCEPT !.spawned = @ + 1,
                                  !.children = @ \cup {spawned + 1}])
              /\ Continues(t, [ThreadIdle EXCEPT !.pc = "connect_stdin",
                                                !.op = "connect",
                                                !.mode = m,
                                                !.child = spawned + 1], NoLine)
         ELSE /\ Store(SV)
              /\ Continues(t, [ThreadIdle EXCEPT !.pc = "tcp_connect",
                                                !.op = "connect",
                                                !.mode = m], NoLine)
    /\ ThreadFrame

\* RpcClient::connect: *self.stdin.lock().unwrap() = Some(stdin)
ConnectStdin(t) ==
    /\ thread[t].pc = "connect_stdin"
    /\ WriteGuardFree("Subprocess")
    /\ Store(RpcClient_set_stdin(SV, thread[t].child))
    /\ Continues(t, [thread[t] EXCEPT !.pc = "connect_stdout"], NoLine)
    /\ ThreadFrame

\* *self.stdout.lock().unwrap() = Some(BufReader::new(stdout))
ConnectStdout(t) ==
    /\ thread[t].pc = "connect_stdout"
    /\ ReadGuardFree("Subprocess")
    /\ Store(RpcClient_set_stdout(SV, thread[t].child))
    /\ IF thread[t].op = "connect"
       THEN Returns(t, "connect", client_result(Ok(None)), NoLine)
       ELSE Continues(t, [thread[t] EXCEPT !.pc = "store_process"], NoLine)
    /\ ThreadFrame

\* *self.process.lock().unwrap() = Some(child): the Child the field held is
\* dropped, which neither kills it nor waits for it.
StoreProcess(t) ==
    /\ thread[t].pc = "store_process"
    /\ Store([SV EXCEPT !.process = thread[t].child])
    /\ Continues(t, [thread[t] EXCEPT !.pc = "fetch_add"], NoLine)
    /\ ThreadFrame

\* The address is read from tcp_config; TcpRpcClient::connect up to its
\* stores: the socket is opened and its options are set, before any lock of
\* the client is taken.
TcpConnect(t) ==
    /\ thread[t].pc = "tcp_connect"
    /\ \E conn \in ConnOutcomes :
         LET c == TcpRpcClient_open(SV, conn) IN
         /\ Within(c.sv)
         /\ Store(c.sv)
         /\ IF c.ret.kind = "Ok"
            THEN Continues(t, [thread[t] EXCEPT !.pc = "connect_stream",
                                               !.child = c.sv.opened], NoLine)
            ELSE IF thread[t].op = "connect"
            THEN Returns(t, "connect", client_result(c.ret), NoLine)
            ELSE Returns(t, "start", StartFailed("connect", c.ret), NoLine)
    /\ ThreadFrame

\* *self.stream.lock().unwrap() = Some(stream)
ConnectStream(t) ==
    /\ thread[t].pc = "connect_stream"
    /\ WriteGuardFree("Tcp")
    /\ Store(TcpRpcClient_set_stream(SV, thread[t].child))
    /\ Continues(t, [thread[t] EXCEPT !.pc = "connect_reader"], NoLine)
    /\ ThreadFrame

\* *self.reader.lock().unwrap() = Some(reader); Ok(())
ConnectReader(t) ==
    /\ thread[t].pc = "connect_reader"
    /\ ReadGuardFree("Tcp")
    /\ Store(TcpRpcClient_set_reader(SV, thread[t].child))
    /\ IF thread[t].op = "connect"
       THEN Returns(t, "connect", client_result(Ok(None)), NoLine)
       ELSE Continues(t, [thread[t] EXCEPT !.pc = "fetch_add"], NoLine)
    /\ ThreadFrame

\* Ok(result) => { *self.state.lock().unwrap() = BridgeState::Running; Ok(()) }
SetRunning(t) ==
    /\ thread[t].pc = "set_running"
    /\ Store(SetState(SV, "Running"))
    /\ Returns(t, "start", Unit, NoLine)
    /\ ThreadFrame

\* Err(e) => { ..; *self.state.lock().unwrap() = BridgeState::Error;
\* Err(BridgeError::StartFailed(format!("Ping failed: {}", e))) }
StartError(t) ==
    /\ thread[t].pc = "start_error"
    /\ Store(SetState(SV, "Error"))
    /\ Returns(t, "start", StartFailed("ping", thread[t].result), NoLine)
    /\ ThreadFrame

\* ---- call() of the transport clients, called by start(), by call() and
\* by a thread that holds the client
\* The client of thread t's mode returns r, having read line.
ClientReturns(t, r, line) ==
    LET next == after_call(thread[t].op, thread[t].mode, r) IN
    IF next = "idle"
    THEN Returns(t, thread[t].op,
                 IF thread[t].op = "call" THEN call_result(thread[t].mode, r)
                 ELSE client_result(r),
                 line)
    ELSE Continues(t, [thread[t] EXCEPT !.pc = next, !.result = r], line)

\* let id = self.request_id.fetch_add(1, Ordering::SeqCst);
\* let request = RpcRequest::new(method, params, id);
\* by a thread that is at rec and calls with one of rqs.
TakeId(t, rec, rqs) ==
    \E rq \in rqs :
       LET m  == rec.mode
           id == request_id(SV, m)
       IN  /\ Store(IF m = "Subprocess"
                    THEN [SV EXCEPT !.rpc_request_id = fetch_add(id)]
                    ELSE [SV EXCEPT !.tcp_request_id = fetch_add(id)])
           /\ Continues(t, [rec EXCEPT
                              !.pc = "send",
                              !.request = RpcRequest(channel(m), rq[1], rq[2], id)],
                       NoLine)

\* The first statement of the client's call, made by start() (the ping) or
\* by call().
FetchAdd(t) ==
    /\ thread[t].pc = "fetch_add"
    /\ IdsUsed < MaxId
    /\ TakeId(t, thread[t],
              IF thread[t].op = "start" THEN {<<"system.ping", None>>} ELSE Requests)
    /\ ThreadFrame

\* The same statement, of a call made on a client by a thread that holds it:
\* call(method, params), or ping(), which is call("system.ping", None).
CallBegin(t) ==
    /\ thread[t].pc = "idle"
    /\ IdsUsed < MaxId
    /\ \E m \in clones :
         TakeId(t, [ThreadIdle EXCEPT !.op = "client_call", !.mode = m], Requests)
    /\ ThreadFrame

\* let mut stdin_guard = self.stdin.lock().unwrap();
\* let stdin = stdin_guard.as_mut().ok_or(RpcError::NotConnected)?;
\* let request_json = serde_json::to_string(&request)?;
SendLock(t) ==
    /\ thread[t].pc = "send"
    /\ WriteGuardFree(thread[t].mode)
    /\ Store(SV)
    /\ IF write_handle(SV, thread[t].mode) = NoChild
       THEN ClientReturns(t, Err("NotConnected"), NoLine)
       ELSE Continues(t, [thread[t] EXCEPT !.pc = "write_json"], NoLine)
    /\ ThreadFrame

\* writeln!(stdin, "{}", request_json)?: the handle is unbuffered, so the
\* text of the request is written first, in a write of its own that can
\* wait for the backend to read.  It is written whole, fails with nothing
\* written, or (write_part) fails with a part of the text written.
WriteJson(t) ==
    /\ thread[t].pc = "write_json"
    /\ \E io \in {"ok", "write_err", "write_part"} :
         LET chan == channel(thread[t].mode)
             sent == [SV EXCEPT !.unfinished[chan] = Append(@, thread[t].request.id)]
         IN  IF io = "ok"
             THEN /\ Store(sent)
                  /\ Continues(t, [thread[t] EXCEPT !.pc = "write_newline"], NoLine)
             ELSE IF io = "write_part"
             THEN /\ Store(sent)
                  /\ ClientReturns(t, IoErr("write failed"), NoLine)
             ELSE /\ Store(SV)
                  /\ ClientReturns(t, IoErr("write failed"), NoLine)
    /\ ThreadFrame

\* The line feed of writeln!, in a second write; stdin.flush()?; the guard
\* is released at the end of the block.  The backend receives a line when
\* the line feed arrives: all the text written to the handle since the line
\* feed before.
WriteNewline(t) ==
    /\ thread[t].pc = "write_newline"
    /\ \E io \in {"ok", "write_err"} :
         LET chan == channel(thread[t].mode) IN
         IF io = "write_err"
         THEN /\ Store(SV)
              /\ ClientReturns(t, IoErr("write failed"), NoLine)
         ELSE /\ Store([SV EXCEPT !.written = @ + 1,
                                  !.request = line_written(unfinished[chan],
                                                           thread[t].request),
                                  !.unfinished[chan] = <<>>])
              /\ Continues(t, [thread[t] EXCEPT !.pc = "read"], NoLine)
    /\ ThreadFrame

\* let mut stdout_guard = self.stdout.lock().unwrap();
\* let stdout = stdout_guard.as_mut().ok_or(RpcError::NotConnected)?;
ReadLock(t) ==
    /\ thread[t].pc = "read"
    /\ ReadGuardFree(thread[t].mode)
    /\ Store(SV)
    /\ IF read_handle(SV, thread[t].mode) = NoChild
       THEN ClientReturns(t, Err("NotConnected"), NoLine)
       ELSE Continues(t, [thread[t] EXCEPT !.pc = "reading"], NoLine)
    /\ ThreadFrame

\* stdout.read_line(&mut response_line)? and the rest of the read block,
\* with the guard held since ReadLock: the next line of the pipe arrives,
\* or the read fails.
ReadLine(t) ==
    /\ thread[t].pc = "reading"
    /\ Store(SV)
    /\ \E in \in ReadInputs(thread[t].mode, thread[t].request.id) :
         ClientReturns(t, read_result(thread[t].mode, in[1], in[2],
                                      thread[t].request.id), in[2])
    /\ ThreadFrame

\* ---- call()
\* if self.get_state() != BridgeState::Running { return Err(NotRunning); }
CallCheck(t) ==
    /\ ~dropped
    /\ thread[t].pc = "idle"
    /\ Store(SV)
    /\ IF not_running(SV)
       THEN Returns(t, "call", NotRunning, NoLine)
       ELSE Continues(t, [ThreadIdle EXCEPT !.pc = "call_mode", !.op = "call"],
                     NoLine)
    /\ ThreadFrame

\* let mode = *self.mode.lock().unwrap(); match mode { .. }
CallMode(t) ==
    /\ thread[t].pc = "call_mode"
    /\ Store(SV)
    /\ Continues(t, [thread[t] EXCEPT !.pc = "fetch_add", !.mode = mode], NoLine)
    /\ ThreadFrame

\* .map_err(|e| { if matches!(e, Io(_) | NotConnected) {
\* *self.state.lock().unwrap() = BridgeState::Error; } .. })
Demote(t) ==
    /\ thread[t].pc = "demote"
    /\ Store(SetState(SV, "Error"))
    /\ Returns(t, "call", call_result(thread[t].mode, thread[t].result), NoLine)
    /\ ThreadFrame

\* ---- stop(), called by the application, by a start_subprocess whose ping
\* failed and by the supervisor's drop
\* let mode = *self.mode.lock().unwrap(); match mode { .. }
StopMode(t) ==
    /\ \/ ~dropped /\ thread[t].pc = "idle"
       \/ thread[t].pc = "stop_mode"
    /\ Store(SV)
    /\ Continues(t, [thread[t] EXCEPT
                       !.pc = IF mode = "Subprocess"
                              THEN "disc_stdin" ELSE "disc_stream",
                       !.op = IF thread[t].pc = "idle" THEN "stop" ELSE @,
                       !.mode = mode], NoLine)
    /\ ThreadFrame

\* ---- disconnect() of the transport clients, called by stop(), by a
\* start_tcp whose ping failed and by a thread that holds the client
\* A thread that holds a client enters its disconnect().
DisconnectBegin(t) ==
    /\ thread[t].pc = "idle"
    /\ Store(SV)
    /\ \E m \in clones :
         Continues(t, [ThreadIdle EXCEPT
                         !.pc = IF m = "Subprocess"
                                THEN "disc_stdin" ELSE "disc_stream",
                         !.op = "disconnect",
                         !.mode = m], NoLine)
    /\ ThreadFrame

\* RpcClient::disconnect: *self.stdin.lock().unwrap() = None
DisconnectStdin(t) ==
    /\ thread[t].pc = "disc_stdin"
    /\ WriteGuardFree("Subprocess")
    /\ Store(RpcClient_set_stdin(SV, NoChild))
    /\ Continues(t, [thread[t] EXCEPT !.pc = "disc_stdout"], NoLine)
    /\ ThreadFrame

\* *self.stdout.lock().unwrap() = None
DisconnectStdout(t) ==
    /\ thread[t].pc = "disc_stdout"
    /\ ReadGuardFree("Subprocess")
    /\ Store(RpcClient_set_stdout(SV, NoChild))
    /\ IF thread[t].op = "disconnect"
       THEN Returns(t, "disconnect", client_result(Ok(None)), NoLine)
       ELSE Continues(t, [thread[t] EXCEPT !.pc = "kill"], NoLine)
    /\ ThreadFrame

\* if let Some(mut child) = self.process.lock().unwrap().take() {
\* let _ = child.kill(); let _ = child.wait(); }
Kill(t) ==
    /\ thread[t].pc = "kill"
    /\ Store(KillProcess(SV))
    /\ Continues(t, [thread[t] EXCEPT !.pc = "stop_state"], NoLine)
    /\ ThreadFrame

\* TcpRpcClient::disconnect: *self.stream.lock().unwrap() = None
\* (drop_stream, drop_reader: the disconnect() of TcpRpcClient's own Drop,
\* which runs when the supervisor's fields are dropped and nobody else
\* holds the client)
DisconnectStream(t) ==
    /\ thread[t].pc \in {"disc_stream", "ping_disc_stream", "drop_stream"}
    /\ WriteGuardFree("Tcp")
    /\ Store(TcpRpcClient_set_stream(SV, NoSock))
    /\ Continues(t, [thread[t] EXCEPT !.pc =
                       IF @ = "disc_stream" THEN "disc_reader"
                       ELSE IF @ = "drop_stream" THEN "drop_reader"
                       ELSE "ping_disc_reader"], NoLine)
    /\ ThreadFrame

\* *self.reader.lock().unwrap() = None
DisconnectReader(t) ==
    /\ thread[t].pc \in {"disc_reader", "ping_disc_reader", "drop_reader"}
    /\ ReadGuardFree("Tcp")
    /\ Store(TcpRpcClient_set_reader(SV, NoSock))
    /\ IF thread[t].pc = "ping_disc_reader"
       THEN Continues(t, [thread[t] EXCEPT !.pc = "start_error"], NoLine)
       ELSE IF thread[t].pc = "drop_reader"
       THEN Returns(t, "drop", Unit, NoLine)
       ELSE IF thread[t].op = "disconnect"
       THEN Returns(t, "disconnect", client_result(Ok(None)), NoLine)
       ELSE Continues(t, [thread[t] EXCEPT !.pc = "stop_state"], NoLine)
    /\ ThreadFrame

\* *self.state.lock().unwrap() = BridgeState::Stopped
StopState(t) ==
    /\ thread[t].pc = "stop_state"
    /\ Store(SetState(SV, "Stopped"))
    /\ IF thread[t].op = "stop"
       THEN Returns(t, "stop", Unit, NoLine)
       ELSE Continues(t, [thread[t] EXCEPT !.pc =
                            IF thread[t].op = "drop"
                            THEN "drop_fields" ELSE "start_error"], NoLine)
    /\ ThreadFrame

\* ---- impl Drop for BridgeManager
\* No thread is inside a method of the supervisor.  Threads that hold a
\* transport client may be inside a method of the client.
Unborrowed ==
    \A u \in Threads : thread[u].op \notin {"start", "stop", "call", "drop"}

\* The last holder of the supervisor lets go of it on thread t:
\* drop(&mut self) is entered, and runs stop() first.
DropBegin(t) ==
    /\ ~dropped
    /\ thread[t].pc = "idle"
    /\ Unborrowed
    /\ Store(SV)
    /\ Continues(t, [ThreadIdle EXCEPT !.pc = "stop_mode", !.op = "drop"], NoLine)
    /\ dropped' = TRUE
    /\ UNCHANGED <<clones, input, output>>

\* stop() has returned: the fields are dropped, as far as tcp_client.  The
\* drop is over when the network client is held elsewhere; otherwise the
\* client is dropped too, and its Drop enters disconnect(), which takes the
\* lock of stream and then the lock of reader (DisconnectStream,
\* DisconnectReader).
DropFields(t) ==
    /\ thread[t].pc = "drop_fields"
    /\ Store(drop_fields_to_tcp(SV, clones))
    /\ IF "Tcp" \in clones
       THEN Returns(t, "drop", Unit, NoLine)
       ELSE Continues(t, [thread[t] EXCEPT !.pc = "drop_stream"], NoLine)
    /\ ThreadFrame

\* ---- the methods, as the steps they are made of
\* The send block and the read block of RpcClient::call and
\* TcpRpcClient::call.
Exchange(t) ==
    \/ SendLock(t)
    \/ WriteJson(t)
    \/ WriteNewline(t)
    \/ ReadLock(t)
    \/ ReadLine(t)

\* The client's call made by start() and by call().
ClientCall(t) ==
    \/ FetchAdd(t)
    \/ Exchange(t)

\* The stores of RpcClient::connect and TcpRpcClient::connect.
ConnectStores(t) ==
    \/ ConnectStdin(t)
    \/ ConnectStdout(t)
    \/ ConnectStream(t)
    \/ ConnectReader(t)

\* The stores of RpcClient::disconnect and TcpRpcClient::disconnect.
DisconnectStores(t) ==
    \/ DisconnectStdin(t)
    \/ DisconnectStdout(t)
    \/ DisconnectStream(t)
    \/ DisconnectReader(t)

\* BridgeManager::stop on thread t
Stop(t) ==
    \/ StopMode(t)
    \/ DisconnectStores(t)
    \/ Kill(t)
    \/ StopState(t)

\* BridgeManager::start on thread t
Start(t) ==
    \/ StartMode(t)
    \/ StartCheck(t)
    \/ Spawn(t)
    \/ TcpConnect(t)
    \/ ConnectStores(t)
    \/ StoreProcess(t)
    \/ SetRunning(t)
    \/ StartError(t)

\* BridgeManager::call on thread t
Call(t) ==
    \/ CallCheck(t)
    \/ CallMode(t)
    \/ Demote(t)

\* impl Drop for BridgeManager on thread t: the steps of stop() are between
\* the two, and the two stores of TcpRpcClient's disconnect() after them
\* (all of them steps of Stop(t)).
Drop(t) ==
    \/ DropBegin(t)
    \/ DropFields(t)

\* call() or ping(), connect() and disconnect() of either transport client,
\* entered by a thread that holds the client.
ClientBegin(t) ==
    \/ CallBegin(t)
    \/ ConnectBegin(t)
    \/ DisconnectBegin(t)

\* Every step thread t can take.
Step(t) ==
    \/ Start(t)
    \/ Stop(t)
    \/ Call(t)
    \/ ClientCall(t)
    \/ ClientBegin(t)
    \/ Drop(t)

\* The supervisor lives in the application's state as Arc<BridgeManager> and
\* every command reaches it from a thread of its own: the steps of the
\* methods interleave freely, with those of the threads that hold a
\* transport client, which go on after the supervisor is dropped.
Next ==
    \/ \E t \in Threads : Step(t)
    \/ SetMode
    \/ SetTcpConfig
    \/ SetPythonPath
    \/ GetState
    \/ TakeClient

Spec == Init /\ [][Next]_vars

\* The specifications that follow take their steps from Next and start in
\* states of Init: each behaviour of theirs is a behaviour of Spec, under one
\* discipline of the callers or one pair of methods run side by side.

\* ---------------------------------------------------- serialized callers
\* The callers do what the design asks of them: one method of the
\* supervisor at a time.  One thread makes every call that changes
\* something; get_state(), which may be polled from any thread, runs
\* between any two of its steps.
Main == "t1"

\* The one thread is between two methods.
Quiet == thread[Main].pc = "idle"

SerialNext ==
    \/ Start(Main)
    \/ Stop(Main)
    \/ Call(Main)
    \/ ClientCall(Main)
    \/ Drop(Main)
    \/ Quiet /\ SetMode
    \/ GetState

SerialSpec == Init /\ [][SerialNext]_vars

\* The same with the two other setters.
ConfigNext ==
    \/ SerialNext
    \/ Quiet /\ SetTcpConfig
    \/ Quiet /\ SetPythonPath

ConfigSpec == Init /\ [][ConfigNext]_vars

\* The steps of start() and of stop() in subprocess mode.
SubprocessStart(t) ==
    \/ StartMode(t)
    \/ StartCheck(t)
    \/ Spawn(t)
    \/ ConnectStdin(t)
    \/ ConnectStdout(t)
    \/ StoreProcess(t)
    \/ SetRunning(t)
    \/ StartError(t)

SubprocessStop(t) ==
    \/ StopMode(t)
    \/ DisconnectStdin(t)
    \/ DisconnectStdout(t)
    \/ Kill(t)
    \/ StopState(t)

\* Subprocess mode, never changed: start, call and stop in sequence.
SubprocessNext ==
    \/ SubprocessStart(Main)
    \/ SubprocessStop(Main)
    \/ Call(Main)
    \/ ClientCall(Main)

\* BridgeManager::new(): the mode is Subprocess.
SubprocessInit == Init /\ mode = "Subprocess"

SubprocessSpec == SubprocessInit /\ [][SubprocessNext]_vars

\* ----------------------------------- a call beside start() and stop()
\* One thread calls while another starts and stops the supervisor, with
\* nothing that orders them.
Caller  == "t1"
Starter == "t2"

ThreadedNext ==
    \/ Call(Caller)
    \/ ClientCall(Caller)
    \/ Start(Starter)
    \/ Stop(Starter)
    \/ ClientCall(Starter)

ThreadedSpec == Init /\ [][ThreadedNext]_vars

\* ------------------------------------------------ two start() at once
\* Two threads start the supervisor with nothing that orders them.
Starters == {"t1", "t2"}

\* stop() is entered only by a start_subprocess whose ping failed.
RaceNext ==
    \E t \in Starters :
       \/ Start(t)
       \/ thread[t].op = "start" /\ Stop(t)
       \/ ClientCall(t)

RaceSpec == Init /\ [][RaceNext]_vars

\* ------------------------- stop() beside a call that waits for its reply
\* Subprocess mode: one thread calls while the other starts and stops.
BlockedNext ==
    \/ Call(Caller)
    \/ ClientCall(Caller)
    \/ SubprocessStart(Starter)
    \/ SubprocessStop(Starter)
    \/ ClientCall(Starter)

\* Thread t is inside a method and its next statement does not wait for the
\* backend: every statement but read_line and writeln! on the pipes of a
\* child that is alive, and read_line on a socket that is open.  A pipe has
\* no timeout: read_line waits while the child writes no line, and writeln!
\* waits while the pipe is full and the child does not read; the pipes of a
\* dead child fail at once.  The read timeout of the socket bounds one
\* receive and not read_line, which receives again after every byte that is
\* no line feed: it waits while the service goes on sending without one.
\* The write timeout bounds writeln!, whose text has an end.
Proceeds(t) ==
    /\ thread[t].pc # "idle"
    /\ (thread[t].pc = "reading" /\ thread[t].mode = "Subprocess")
          => stdout \notin children
    /\ (thread[t].pc = "reading" /\ thread[t].mode = "Tcp")
          => reader \notin sockets
    /\ (thread[t].pc \in {"write_json", "write_newline"}
          /\ thread[t].mode = "Subprocess")
          => stdin \notin children
    /\ Step(t)

\* A thread inside a method keeps running: it takes its next step when the
\* lock it needs is free.  Nothing obliges read_line or writeln! on a pipe
\* to return while the child lives and neither writes nor reads, nor
\* read_line on a socket while it is open; nothing obliges the application
\* to call, to start or to stop.
BlockedSpec ==
    /\ SubprocessInit
    /\ [][BlockedNext]_vars
    /\ \A t \in Threads : WF_vars(Proceeds(t))

\* ------------------------------------------- a transport client, shared
\* One of the two transport clients is handed out, by rpc_client() or by
\* tcp_client(), whatever the mode (the two clients share no field, and a
\* method of one touches nothing of the other).  Two threads call it, while
\* a third connects it, disconnects it and, at some time, drops the
\* supervisor, whose stop() disconnects the client of the mode; the three
\* go on with the client they hold when the supervisor is gone.
Callers == {"t1", "t2"}
Owner   == "t3"

ClientNext ==
    \/ clones = {} /\ TakeClient
    \/ \E t \in Callers : CallBegin(t) \/ Exchange(t)
    \/ ConnectBegin(Owner)
    \/ TcpConnect(Owner)
    \/ ConnectStores(Owner)
    \/ DisconnectBegin(Owner)
    \/ DisconnectStores(Owner)
    \/ Drop(Owner)
    \/ StopMode(Owner)
    \/ Kill(Owner)
    \/ StopState(Owner)

ClientSpec == SubprocessInit /\ [][ClientNext]_vars

\* The same, with threads that keep running.
WaitSpec ==
    /\ SubprocessInit
    /\ [][ClientNext]_vars
    /\ \A t \in Threads : WF_vars(Proceeds(t))

\* ================================================================== claims
\* The one thread of the serialized callers.
Me == thread[Main]

\* The step is the first of a call() of Main: it is refused at the check of
\* the state, or it passes the check.
CallInvoked ==
    /\ Me.pc = "idle"
    /\ \/ op' = "call" /\ Me' = Me
       \/ Me'.op = "call"

\* What the transport client's call returned to the method that made it: the
\* method returned with it in the step, or keeps it while it goes on.
ClientResult == IF op = "call" THEN ret.inner ELSE Me.result

\* The line read in the step is a response object carrying an error object.
ErrorReply ==
    /\ reply.kind = "json"
    /\ reply.jsonrpc
    /\ reply.error = "obj"

\* Line is a response object with no error, the id of request rq and a
\* result, and rq is the liveness request.
PingAnswered(line, rq) ==
    /\ rq.method = "system.ping"
    /\ rq.params = None
    /\ line.kind = "json"
    /\ line.jsonrpc
    /\ line.error # "obj"
    /\ line.id_tag = "num"
    /\ line.id_n = rq.id
    /\ line.result \notin {Absent, JNull}

\* C1: call in a state other than Running returns NotRunning, reads nothing
\* and changes nothing: no request line written, no request id taken, no
\* process spawned, no socket opened, the state as it was.
C1_CallNotRunningTouchesNothing ==
    [][(CallInvoked /\ state # "Running")
        => (op' = "call" /\ ret' = NotRunning /\ reply' = NoLine /\ SVn = SV
            /\ Me' = ThreadIdle)]_vars

C1_Witness ==
    /\ op = "call"
    /\ ret = NotRunning
    /\ state = "Error"

\* C2: a call made in Running that fails with a transport I/O error leaves
\* the state Error when it returns, and a call made right after it returns
\* NotRunning without writing a request or taking a request id.
C2_IoErrorDemotesThenFastFail ==
    [][/\ (op' = "call" /\ ret'.inner.kind = "Io") => state' = "Error"
       /\ (op = "call" /\ ret.inner.kind = "Io" /\ CallInvoked)
           => (op' = "call" /\ ret' = NotRunning /\ written' = written
               /\ IdsUsed' = IdsUsed)]_vars

C2_Witness ==
    /\ op = "call"
    /\ ret.inner.kind = "Io"
    /\ state = "Error"

\* C3: a call made in Running that the backend answers with an error object
\* returns an application RPC error with the backend's code, message and
\* data, and leaves the state Running; a call made right after it passes the
\* check of the state.
C3_RpcErrorKeepsRunning ==
    [][/\ (Me.op = "call" /\ Me.pc = "reading" /\ ErrorReply')
           => /\ op' = "call"
              /\ ret'.kind \in {"Rpc", "TcpRpc"}
              /\ ret'.inner.kind = "Rpc"
              /\ ret'.inner.code = reply'.code
              /\ ret'.inner.message = reply'.message
              /\ ret'.inner.data = (IF reply'.data = "detail" THEN "detail" ELSE None)
              /\ state' = "Running"
       /\ (op = "call" /\ ret.inner.kind = "Rpc" /\ CallInvoked)
           => (op' = "none" /\ Me'.op = "call" /\ Me'.pc = "call_mode")]_vars

C3_Witness ==
    /\ op = "call"
    /\ ErrorReply
    /\ reply.data = "detail"
    /\ ret.inner.kind = "Rpc"
    /\ state = "Running"

\* C4: the state becomes Running only by a start() whose system.ping was
\* answered by a response without error, with the request's id and a
\* result; a start() returns success exactly then (or at once, when the
\* state is Running already), and otherwise returns StartFailed and does not
\* leave the state Running.
C4_RunningOnlyAfterPing ==
    [][/\ (state' = "Running" /\ state # "Running")
           => (Me.op = "start" /\ Me.pc = "set_running" /\ op' = "start"
               /\ ret' = Unit)
       /\ (Me'.pc = "set_running" /\ Me.pc # "set_running")
           => (Me.op = "start" /\ Me.pc = "reading")
       /\ (Me.op = "start" /\ Me.pc = "reading")
           => (Me'.pc = "set_running" <=> PingAnswered(reply', Me.request))
       /\ (op' = "start" /\ ret'.kind = "Ok")
           => \/ Me.pc = "set_running" /\ state' = "Running"
              \/ Me.pc = "start_check" /\ state = "Running"
       /\ (op' = "start" /\ ret'.kind # "Ok")
           => (ret'.kind = "StartFailed" /\ state' # "Running")]_vars

\* The ping of a start() was answered and the start is about to store
\* Running.
C4_Witness ==
    /\ Me.op = "start"
    /\ Me.pc = "set_running"
    /\ Me.result.kind = "Ok"
    /\ request = Me.request
    /\ state = "Starting"

\* C5: whenever start() returns an error, whichever step failed, the error
\* is StartFailed and the state is Error.  The code leaves the state
\* Starting when the spawn or the connect fails.
C5_FailedStartLeavesError ==
    (op = "start" /\ ret.kind # "Ok")
        => (ret.kind = "StartFailed" /\ state = "Error")

\* C6: when start() returns StartFailed, what that start established is torn
\* down: the child it spawned is dead, no longer held, and the stdio client
\* is disconnected; the socket it opened is closed, and the network client
\* it connected is disconnected.
C6_FailedStartTornDown ==
    [][(op' = "start" /\ ret'.kind = "StartFailed")
        => /\ (Me.mode = "Subprocess" /\ Me.child # NoChild)
                => /\ Me.child \notin children'
                   /\ process' = NoChild
                   /\ stdin' = NoChild
                   /\ stdout' = NoChild
           /\ opened' > opened => opened' \notin sockets'
           /\ (Me.mode = "Tcp" /\ Me.child # NoSock)
                => /\ Me.child \notin sockets'
                   /\ stream' = NoSock
                   /\ reader' = NoSock]_vars

C6_Witness ==
    /\ op = "start"
    /\ ret.kind = "StartFailed"
    /\ ret.text = "ping"
    /\ mode = "Subprocess"
    /\ spawned > 0
    /\ spawned \notin children

\* C7: start() in state Running returns success and changes nothing: no
\* process spawned, no socket opened, no request written, no line read, the
\* state still Running.
C7_StartWhileRunningIsNoOp ==
    [][/\ (Me.pc = "idle" /\ Me'.op = "start")
           => (Me'.pc = "start_check" /\ SVn = SV)
       /\ (Me.op = "start" /\ Me.pc = "start_check" /\ state = "Running"
             /\ Me' # Me)
           => (op' = "start" /\ ret' = Unit /\ reply' = NoLine /\ SVn = SV)]_vars

\* A start() returned success without a ping of its own: the request
\* written last is the one of a call().
C7_Witness ==
    /\ op = "start"
    /\ ret = Unit
    /\ reply = NoLine
    /\ state = "Running"
    /\ request.method = "config.get"

\* The supervisor holds nothing of mode m.
NothingHeld(m) ==
    IF m = "Subprocess"
    THEN stdin = NoChild /\ stdout = NoChild /\ process = NoChild
    ELSE stream = NoSock /\ reader = NoSock

\* C8: stop() leaves the state Stopped whatever the state was, and a second
\* stop() changes nothing the first one left: every step of a stop() brings
\* the supervisor nearer to what stop() makes of it, stop() returns when it
\* is there, and a stop() of a Stopped supervisor that holds nothing changes
\* nothing.
C8_StopAlwaysStoppedIdempotent ==
    [][/\ op' = "stop"
           => (state' = "Stopped" /\ ret' = Unit /\ NothingHeld(mode)'
               /\ stop(SVn) = SVn)
       /\ (Me.op = "stop" \/ Me'.op = "stop") => stop(SVn) = stop(SV)
       /\ stop(stop(SV)) = stop(SV)
       /\ ((Me.op = "stop" \/ Me'.op = "stop") /\ state = "Stopped"
             /\ NothingHeld(mode))
           => SVn = SV]_vars

C8_Witness ==
    /\ op = "stop"
    /\ state = "Stopped"
    /\ spawned > 0
    /\ children = {}

\* C9: dropping a Running supervisor leaves no child process it spawned
\* alive and no socket it opened open: what drop makes of the supervisor it
\* is entered on has neither, every step of the drop brings the supervisor
\* nearer to that, and the drop returns when it is there.  The code kills
\* only the child the process field holds, and only when the mode is still
\* Subprocess.
C9_DropLeavesNothing ==
    [][/\ (Me.pc = "idle" /\ Me'.op = "drop" /\ state = "Running")
           => (drop(SV, clones).children = {} /\ drop(SV, clones).sockets = {})
       /\ (Me.op = "drop" \/ Me'.op = "drop")
           => drop(SVn, clones') = drop(SV, clones)
       /\ op' = "drop" => SVn = drop(SV, clones)]_vars

\* C10: a decoded response that carries an id other than the id of the
\* request, whatever else it carries, makes the client's call fail with
\* InvalidResponse naming the response's id and the request's id.  The code
\* returns the response's error object before it compares the ids.
C10_StrayIdIsInvalidResponse ==
    (/\ reply.kind = "json"
     /\ reply.jsonrpc
     /\ reply.id_tag = "num"
     /\ reply.id_n # request.id)
        => /\ ClientResult.kind = "InvalidResponse"
           /\ ClientResult.resp_id = reply.id_n
           /\ ClientResult.req_id = request.id

\* A decodable line that carries neither a result nor an error object.
NeitherReply ==
    /\ Decodable(reply)
    /\ reply.error # "obj"
    /\ DecodeOption(reply.result) = None

\* C11: a response that carries neither a result nor an error makes the call
\* fail with InvalidResponse, and a call that succeeds returns the result the
\* response carried, never an empty or absent one.
C11_NeitherIsInvalidResponse ==
    /\ NeitherReply => ClientResult.kind = "InvalidResponse"
    /\ (op = "call" /\ ret.kind = "Ok")
          => (ret.inner.kind = "Ok" /\ ret.inner.value # None
              /\ ret.inner.value = reply.result /\ reply.result \notin {Absent, JNull})

C11_Witness ==
    /\ op = "call"
    /\ NeitherReply
    /\ reply.id_tag = "num"
    /\ reply.id_n = request.id
    /\ ret.inner = NeitherResultNorError

\* The transport clients hold no handle.
RpcClient_no_handles    == stdin = NoChild /\ stdout = NoChild
TcpRpcClient_no_handles == stream = NoSock /\ reader = NoSock

\* C12: a transport client that holds no handles (never connected, or
\* disconnected) reports is_connected() = false and fails every call with
\* NotConnected without writing anything; disconnect() leaves it so, and after
\* connect() installs handles is_connected() is true.
C12_NoHandlesNotConnected ==
    [][/\ RpcClient_no_handles =>
            ~RpcClient_is_connected(SV)
       /\ TcpRpcClient_no_handles =>
            ~TcpRpcClient_is_connected(SV)
       /\ ~RpcClient_is_connected(RpcClient_disconnect(SV))
       /\ ~TcpRpcClient_is_connected(TcpRpcClient_disconnect(SV))
       /\ RpcClient_is_connected(RpcClient_connect(SV, spawned + 1))
       /\ TcpRpcClient_is_connected(TcpRpcClient_connect(SV, "ok").sv)
       /\ (Me.pc = "send" /\ Me' # Me
             /\ (IF Me.mode = "Subprocess" THEN RpcClient_no_handles
                 ELSE TcpRpcClient_no_handles))
           => /\ written' = written
              /\ request' = request
              /\ unfinished' = unfinished
              /\ reply' = NoLine
              /\ IF op' = "call" THEN ret'.inner = Err("NotConnected")
                 ELSE Me'.result = Err("NotConnected")
       /\ (Me.pc = "store_process" /\ Me' # Me) => RpcClient_is_connected(SVn)
       /\ (Me.pc = "connect_reader" /\ Me' # Me) => TcpRpcClient_is_connected(SVn)
       /\ (Me.pc \in {"kill", "disc_reader", "ping_disc_reader"} /\ Me' # Me)
           => IF Me.mode = "Subprocess" THEN ~RpcClient_is_connected(SVn)
              ELSE ~TcpRpcClient_is_connected(SVn)]_vars

\* A call reached a transport client that had been connected and
\* disconnected, and was refused.
C12_Witness ==
    /\ op = "call"
    /\ ret.inner = Err("NotConnected")
    /\ spawned + opened > 0
    /\ IF ret.kind = "Rpc" THEN RpcClient_no_handles ELSE TcpRpcClient_no_handles

\* C15: while Running, a call that fails because the response is malformed
\* JSON or carries an id that does not match the request is channel-fatal:
\* the state is Error when the call returns.
C15_DesyncIsChannelFatal ==
    (op = "call" /\ (ret.inner.kind = "Json" \/ ret.inner.detail = "id mismatch"))
        => state = "Error"

\* C16: a network read that exceeds the read timeout makes the call fail with
\* the Timeout kind, distinct from the I/O error kind.
C16_ReadTimeoutIsTimeout ==
    (op \in {"call", "start"} /\ ret.inner.detail = "read timed out")
        => ret.inner.kind = "Timeout"

\* C17: while Running in network mode, a call whose read exceeds the read
\* timeout leaves the state Error, and the call after it is refused with
\* NotRunning.
C17_ReadTimeoutDemotes ==
    [][/\ (op' = "call" /\ ret'.inner.detail = "read timed out")
            => (state' = "Error" /\ ret'.kind = "TcpRpc")
       /\ (Me.op = "call" /\ Me.pc = "reading" /\ Me'.result.detail = "read timed out")
            => (Me.mode = "Tcp" /\ Me'.pc = "demote")
       /\ (op = "call" /\ ret.inner.detail = "read timed out" /\ CallInvoked)
            => (op' = "call" /\ ret' = NotRunning)]_vars

C17_Witness ==
    /\ op = "call"
    /\ mode = "Tcp"
    /\ ret = BridgeResult("TcpRpc", "", IoErr("read timed out"))
    /\ state = "Error"

\* C18: while Running, a call the transport refuses with NotConnected leaves
\* the state Error before it returns, and the call after it is refused with
\* NotRunning without reaching a transport.
C18_NotConnectedDemotes ==
    [][/\ (op' = "call" /\ ret'.inner.kind = "NotConnected") => state' = "Error"
       /\ (op = "call" /\ ret.inner.kind = "NotConnected" /\ CallInvoked)
            => (op' = "call" /\ ret' = NotRunning /\ written' = written
                /\ IdsUsed' = IdsUsed)]_vars

C18_Witness ==
    /\ op = "call"
    /\ ret = BridgeResult("Rpc", "", Err("NotConnected"))
    /\ state = "Error"
    /\ written > 0

\* C19: set_mode, set_tcp_config and set_python_path are accepted only while
\* the state is Stopped; in any other state they are rejected with a usage
\* error and leave the mode and the endpoint as they were.
C19_ConfigOnlyWhenStopped ==
    [][(op' \in {"set_mode", "set_tcp_config", "set_python_path"} /\ state # "Stopped")
          => (/\ ret'.kind = "InvalidConfig"
              /\ mode' = mode
              /\ tcp_config' = tcp_config
              /\ python_path' = python_path)]_vars

\* One change of the state, from one value to another, made inside method
\* o, follows the lifecycle.
LifecycleStep(from, to, o) ==
    \/ to = "Starting" /\ o = "start"
    \/ to = "Running"  /\ from = "Starting"
    \/ to = "Error"    /\ from = "Starting" /\ o = "start"
    \/ to = "Error"    /\ from = "Running"  /\ o = "call"
    \/ to = "Stopped"  /\ o \in {"stop", "drop", "start"}

\* C20: every change of the state follows the lifecycle: Starting is entered
\* only by start(), Running only from Starting, Error only from Starting (a
\* failed start) or from Running (a failed call), Stopped only by stop()
\* (which drop and a failed start call).
C20_LifecycleFollowed ==
    [][state' # state
        => LifecycleStep(state, state', IF op' = "drop" THEN "drop" ELSE Me.op)]_vars

\* C21: at every moment at most one of the two transport clients is
\* connected, for every sequence of set_mode, start, call and stop.
C21_OneTransportConnected ==
    ~(RpcClient_is_connected(SV) /\ TcpRpcClient_is_connected(SV))

\* The statements of call() in the order they run.
CallOrder ==
    <<"idle", "call_mode", "fetch_add", "send", "write_json", "write_newline",
      "read", "reading", "demote", "returned">>
CallPosition(pc) == CHOOSE i \in 1..Len(CallOrder) : CallOrder[i] = pc

\* C23: one call of the supervisor writes at most one request line and reads
\* at most one response line: its statements run in their order, none twice,
\* the text of the request and its line feed are each written by one of
\* them and the line is read by another, after them; whatever the outcome
\* it spawns no process, opens no socket and replaces no handle.
C23_CallIsOneExchange ==
    [][((Me.op = "call" \/ Me'.op = "call") /\ Me' # Me) =>
          LET chan == channel(Me.mode) IN
          /\ CallPosition(Me.pc) <
                CallPosition(IF Me'.pc = "idle" THEN "returned" ELSE Me'.pc)
          /\ written' # written
                => (Me.pc = "write_newline" /\ written' = written + 1
                    /\ Me'.pc = "read"
                    /\ request' = line_written(unfinished[chan], Me.request))
          /\ unfinished' # unfinished
                => \/ /\ Me.pc = "write_json"
                      /\ unfinished' =
                            [unfinished EXCEPT ![chan] = Append(@, Me.request.id)]
                   \/ /\ Me.pc = "write_newline"
                      /\ unfinished' = [unfinished EXCEPT ![chan] = <<>>]
          /\ IdsUsed' # IdsUsed
                => (Me.pc = "fetch_add" /\ IdsUsed' = IdsUsed + 1)
          /\ reply' # NoLine => Me.pc = "reading"
          /\ spawned' = spawned /\ opened' = opened
          /\ children' = children /\ sockets' = sockets
          /\ process' = process
          /\ stdin' = stdin /\ stdout' = stdout
          /\ stream' = stream /\ reader' = reader]_vars

\* A call failed after its request was written, and nothing was sent again.
C23_Witness ==
    /\ op = "call"
    /\ ret.inner = IoErr("read failed")
    /\ request.method = "config.get"
    /\ written >= 2

\* C24: get_state() returns the current state and changes neither the state,
\* the mode, the transport clients nor the child process, in every state and
\* between the steps of any other operation.
C24_GetStateIsPure ==
    [][op' = "get_state" =>
          (ret' = BridgeResult("Ok", state, NoResult) /\ reply' = NoLine
           /\ SVn = SV /\ thread' = thread)]_vars

\* get_state() ran while a start() was between its spawn and its ping.
C24_Witness ==
    /\ op = "get_state"
    /\ ret.text = "Starting"
    /\ Me.pc = "store_process"
    /\ children # {}

\* C25: disconnect() of the network transport client is idempotent: on a
\* client that holds no socket (and that no connect() is about to hand one)
\* it changes nothing, it leaves every client disconnected, and doing it
\* twice has the effect of doing it once; so do the two stores it is made
\* of.
C25_TcpDisconnectIdempotent ==
    [][/\ TcpRpcClient_disconnect(TcpRpcClient_disconnect(SV)) = TcpRpcClient_disconnect(SV)
       /\ ~TcpRpcClient_is_connected(TcpRpcClient_disconnect(SV))
       /\ TcpRpcClient_disconnect(SV).reader = NoSock
       /\ (TcpRpcClient_no_handles /\ Held = {}) => TcpRpcClient_disconnect(SV) = SV
       /\ (Me.pc \in {"disc_stream", "disc_reader", "ping_disc_stream",
                      "ping_disc_reader"} /\ Me' # Me)
            => /\ TcpRpcClient_disconnect(SVn) = TcpRpcClient_disconnect(SV)
               /\ TcpRpcClient_no_handles => SVn = SV
       /\ (Me.pc \in {"disc_reader", "ping_disc_reader"} /\ Me' # Me)
            => SVn = TcpRpcClient_disconnect(SVn)]_vars

\* The network client is connected, so that disconnect() has a socket to
\* close, after it was connected and disconnected before.
C25_Witness ==
    /\ TcpRpcClient_is_connected(SV)
    /\ opened >= 2
    /\ sockets = {stream}
    /\ Me.pc = "disc_stream"

\* C26: whenever start() returns success, the transport client of the mode
\* configured at that moment is connected - also when set_mode changed the
\* mode since the start before.
C26_StartedMeansModeConnected ==
    (op = "start" /\ ret = Unit) =>
        IF mode = "Subprocess" THEN RpcClient_is_connected(SV)
        ELSE TcpRpcClient_is_connected(SV)

\* C27: a call whose read reaches the end of the stream without a line (the
\* backend died) leaves the state Error, so that the next call is refused.
C27_EofDemotes ==
    (op = "call" /\ reply.kind = "eof") => state = "Error"

\* C29: after stop() returns neither transport client is connected and no
\* child process the supervisor spawned is alive, also when set_mode was
\* called since start().
C29_StopTearsDownEverything ==
    op = "stop" =>
        /\ ~RpcClient_is_connected(SV)
        /\ ~TcpRpcClient_is_connected(SV)
        /\ children = {}

\* C28: in subprocess mode with the mode never changed, at most one child
\* process the supervisor spawned is alive at any time, after every sequence
\* of start, call and stop - a start() in state Error after a failed call
\* included.
C28_OneChildAlive == Cardinality(children) <= 1

\* C30: once stop() has returned the state stays Stopped until the next
\* start(): only a step of a thread inside start() takes it out of Stopped,
\* not a call of another thread that passed the check of the state before
\* stop() ran.
C30_StoppedUntilStart ==
    [][(state = "Stopped" /\ state' # "Stopped")
        => \E t \in Threads : thread[t].op = "start" /\ thread'[t] # thread[t]]_vars

\* C32: two start() calls that run concurrently on one supervisor establish
\* at most one connection: while both threads are inside start() a child is
\* spawned, or a socket opened, only when none is alive, or open, and every
\* child alive is the one the process handle holds or the one a start()
\* has spawned and is about to store there.
C32_ConcurrentStartsOneConnection ==
    [][(\A t \in Starters : thread[t].op = "start")
        => /\ spawned' > spawned => children = {}
           /\ opened' > opened => sockets = {}
           /\ children' \subseteq
                 {process'} \cup
                 {thread'[t].child :
                    t \in {u \in Threads : thread'[u].pc \in
                              {"connect_stdin", "connect_stdout", "store_process"}}}]_vars

\* C31: in subprocess mode, stop() invoked while another thread's call waits
\* for a reply from a child process that never answers eventually completes:
\* it kills the child and returns with the state Stopped.
C31_StopCompletesBesideBlockedCall ==
    (/\ thread[Starter].op = "stop"
     /\ thread[Starter].pc = "disc_stdout"
     /\ thread[Caller].op = "call"
     /\ thread[Caller].pc = "reading")
       ~> (op = "stop" /\ state = "Stopped" /\ process = NoChild)

\* Thread t is inside the call of a transport client and has its request.
InCall(t) == thread[t].request # NoRequest

\* The request id the client of mode m hands out next.
Counter(m) == IF m = "Subprocess" THEN rpc_request_id ELSE tcp_request_id

\* No two threads inside call() of the same client hold the same id.
DistinctIds ==
    \A t, u \in Threads :
       (/\ t # u
        /\ InCall(t)
        /\ InCall(u)
        /\ thread[t].request.chan = thread[u].request.chan)
          => thread[t].request.id # thread[u].request.id

\* C13: the request ids one transport client hands out start at 1 and each
\* call attempt takes the next integer, so they increase strictly in the order
\* they are assigned and no two calls carry the same id - calls that run
\* concurrently, calls that fail and calls after a disconnect and a reconnect
\* included: the counter changes only when a call takes its id, by one, the
\* call gets the value before, and nothing else ever sets the counter.
C13_RequestIdsIncrease ==
    [][/\ DistinctIds'
       /\ \A t \in Threads :
            /\ InCall(t) => thread[t].request.id \in 1..(Counter(thread[t].mode) - 1)
            /\ (thread'[t].request # thread[t].request /\ InCall(t)')
                 => LET m == thread'[t].mode IN
                    /\ thread'[t].request.id = Counter(m)
                    /\ (IF m = "Subprocess" THEN rpc_request_id' ELSE tcp_request_id')
                          = Counter(m) + 1
       /\ (rpc_request_id' # rpc_request_id \/ tcp_request_id' # tcp_request_id)
            => \E t \in Threads :
                  /\ thread'[t].pc = "send"
                  /\ thread'[t].request # thread[t].request
                  /\ IdsUsed' = IdsUsed + 1]_vars

\* Two calls are in progress at once, after another call has returned and
\* at the moment the client was connected a second time.
C13_Witness ==
    /\ \A t \in Callers : thread[t].pc # "idle"
    /\ \E t \in Callers : thread[t].pc = "reading"
    /\ op = "connect"
    /\ Connections >= 2
    /\ IdsUsed >= 3
    /\ written <= 1

\* C14: a call is atomic with respect to the other callers of the transport
\* client: from the moment a call has written its request until it reads its
\* response no other call writes a request or reads a response, so the reply
\* to request N is read before request N+1 is sent.
C14_CallIsAtomic ==
    [][\A t \in Callers :
          (thread[t].pc \in {"read", "reading"} /\ thread'[t] = thread[t])
             => (written' = written /\ reply' = NoLine)]_vars

\* C22: every call on a transport client, so every call() and every start()
\* of the supervisor (whose liveness ping is such a call), returns in the
\* end, in both modes, also when the backend takes the request and never
\* replies.
C22_CallsReturn ==
    \A t \in Callers :
       (thread[t].pc \in {"read", "reading"}) ~> (thread[t].pc = "idle")

\* C35: the request ids appear on the channel in strictly increasing order: a
\* request with a larger id is never written before a request with a smaller
\* id on the same client, calls issued concurrently included.
C35_IdsWrittenInOrder ==
    [][(/\ written' # written
        /\ request.chan = request'.chan
        /\ request.id # NoId
        /\ request'.id # NoId)
          => request'.id > request.id]_vars

\* C33: a call returns a success value only when that value is the result
\* member of a response whose id equals the call's own request id; no caller
\* receives as success the reply addressed to another request, calls that
\* run concurrently and lines the backend emits unasked included.
C33_SuccessIsOwnReply ==
    [][\A t \in Callers :
          (/\ thread[t].op = "client_call"
           /\ thread'[t] = ThreadIdle
           /\ ret'.inner.kind = "Ok")
             => /\ thread[t].pc = "reading"
                /\ Decodable(reply')
                /\ RpcResponse(reply').id = thread[t].request.id
                /\ RpcResponse(reply').result # None
                /\ ret'.inner.value = RpcResponse(reply').result]_vars

\* A call has succeeded with the reply to its own request while the other
\* thread is inside a call of the same client, its request written too and
\* its reply not read yet.
C33_Witness ==
    /\ op = "client_call"
    /\ ret.inner = Ok("pong")
    /\ reply.id_n = 1
    /\ written = 2
    /\ \E u \in Callers : thread[u].pc = "read" /\ thread[u].request.id = 2

\* Thread t is inside the send block of the client of its mode.
Writing(t) == thread[t].pc \in {"write_json", "write_newline"}

\* C34 as stated: each request is written to the channel as one whole line,
\* the bytes of two requests never on one line: when a call writes its line
\* feed, the text written to the handle since the line feed before is the
\* text of its own request and nothing else, and every line that reaches the
\* backend is one request.  The code keeps the handle installed when a write
\* fails after text was written, and the next call writes behind that text.
C34_EveryLineIsOneRequest ==
    /\ \A t \in Callers :
          thread[t].pc = "write_newline"
             => unfinished[channel(thread[t].mode)] = <<thread[t].request.id>>
    /\ request.method # "unparsed"

\* C34, amended: one thread at a time is inside the send block of a client;
\* while it is inside nobody else writes to the handle or replaces it, and
\* the line feed it writes directly follows the JSON text of its own
\* request.  The line it completes is its request alone exactly when no text
\* was left on the handle, and otherwise no request at all: the left text
\* and the request on one line.  Text is left on a handle only by a call
\* whose write fails after its text, or a part of it, was written: that call
\* returns an I/O error, and the handle stays installed.
C34_RequestsAreWholeLines ==
    [][\A t \in Callers :
          LET chan == channel(thread[t].mode)
              own  == thread[t].request.id
          IN
          /\ Writing(t)
               => \A u \in Threads \ {t} :
                     ~(Writing(u) /\ thread[u].mode = thread[t].mode)
          /\ thread[t].pc = "write_newline"
               => /\ unfinished[chan] # <<>>
                  /\ unfinished[chan][Len(unfinished[chan])] = own
          /\ (Writing(t) /\ thread'[t] = thread[t])
               => (/\ unfinished' = unfinished
                   /\ written' = written
                   /\ write_handle(SVn, thread[t].mode)
                         = write_handle(SV, thread[t].mode))
          /\ (thread[t].pc = "write_newline" /\ thread'[t].pc = "read")
               => /\ written' = written + 1
                  /\ unfinished'[chan] = <<>>
                  /\ request' = IF unfinished[chan] = <<own>>
                                THEN thread[t].request ELSE Unparsed(chan)
          /\ (thread[t].pc = "send" /\ thread'[t].pc = "write_json")
               => unfinished' = unfinished
          /\ (Writing(t) /\ ~Writing(t)' /\ unfinished'[chan] # <<>>)
               => /\ thread'[t] = ThreadIdle
                  /\ op' = "client_call"
                  /\ ret'.inner.kind = "Io"
                  /\ write_handle(SVn, thread[t].mode)
                         = write_handle(SV, thread[t].mode)
                  /\ unfinished'[chan] \in {unfinished[chan],
                                            Append(unfinished[chan], own)}]_vars

\* Two threads are inside call() at once on a connected client: one has
\* completed its line behind the text an earlier call left on the handle,
\* and the backend received a line that is no request; the other has its
\* request ready and waits for the write lock.
C34_Witness ==
    \E t, u \in Callers :
       /\ thread[t].pc = "read"
       /\ thread[u].pc = "send"
       /\ thread[u].mode = thread[t].mode
       /\ request = Unparsed(channel(thread[t].mode))
       /\ write_handle(SV, thread[t].mode) # NoChild

\* ------------------------------------------------- backend/config.rs
\* Option<T> of the configuration records: None is <<>>, Some(v) is <<v>>.
Nothing == <<>>
Some(v) == <<v>>
unwrap_or(option, default) == IF option = Nothing THEN default ELSE option[1]

\* #[derive(Default)] for BackendConfig
BackendConfig_default ==
    [backend_type |-> "LocalPython", python_path |-> Nothing,
     container_name |-> Nothing, wsl_distro |-> Nothing,
     remote_host |-> Nothing, remote_port |-> Nothing, auto_start |-> FALSE]

BackendConfig_local_python(path) ==
    [BackendConfig_default EXCEPT !.backend_type = "LocalPython",
                                  !.python_path = path,
                                  !.auto_start = TRUE]

BackendConfig_docker(container_name) ==
    [BackendConfig_default EXCEPT
        !.backend_type = "Docker",
        !.container_name = IF container_name = Nothing
                           THEN Some("devflow-backend") ELSE container_name,
        !.remote_host = Some("127.0.0.1"),
        !.remote_port = Some(9876),
        !.auto_start = TRUE]

BackendConfig_wsl2(distro) ==
    [BackendConfig_default EXCEPT
        !.backend_type = "Wsl2",
        !.wsl_distro = IF distro = Nothing THEN Some("Ubuntu") ELSE distro,
        !.remote_host = Some("127.0.0.1"),
        !.remote_port = Some(9876),
        !.auto_start = TRUE]

BackendConfig_remote(host, port) ==
    [BackendConfig_default EXCEPT !.backend_type = "Remote",
                                  !.remote_host = Some(host),
                                  !.remote_port = Some(port),
                                  !.auto_start = FALSE]

tcp_host(config) == unwrap_or(config.remote_host, "127.0.0.1")

tcp_port(config) == unwrap_or(config.remote_port, 9876)

\* Mutant of merge_with: the port the project sets is not taken over.
merge_with_port_kept(self, global) ==
    LET r1 == IF self.backend_type # Nothing
              THEN [global EXCEPT !.backend_type = self.backend_type[1]] ELSE global
        r2 == IF self.container_name # Nothing
              THEN [r1 EXCEPT !.container_name = Some(self.container_name[1])] ELSE r1
        r3 == IF self.wsl_distro # Nothing
              THEN [r2 EXCEPT !.wsl_distro = Some(self.wsl_distro[1])] ELSE r2
    IN  IF self.host # Nothing
        THEN [r3 EXCEPT !.remote_host = Some(self.host[1])] ELSE r3

\* ProjectBackendConfig::merge_with: the clone of global, and one assignment
\* for each field the project sets.
merge_with(self, global) ==
    LET r1 == IF self.backend_type # Nothing
              THEN [global EXCEPT !.backend_type = self.backend_type[1]] ELSE global
        r2 == IF self.container_name # Nothing
              THEN [r1 EXCEPT !.container_name = Some(self.container_name[1])] ELSE r1
        r3 == IF self.wsl_distro # Nothing
              THEN [r2 EXCEPT !.wsl_distro = Some(self.wsl_distro[1])] ELSE r2
        r4 == IF self.host # Nothing
              THEN [r3 EXCEPT !.remote_host = Some(self.host[1])] ELSE r3
    IN  IF self.port # Nothing
        THEN [r4 EXCEPT !.remote_port = Some(self.port[1])] ELSE r4

\* The global configurations merged into: the default, and what the four
\* constructors build.
GlobalConfigs ==
    {BackendConfig_default,
     BackendConfig_local_python(Some("/usr/bin/python3")),
     BackendConfig_docker(Nothing),
     BackendConfig_docker(Some("global-container")),
     BackendConfig_wsl2(Nothing),
     BackendConfig_remote("192.168.1.100", 8080)}

\* The project overrides: every choice of the fields that are set.
ProjectConfigs ==
    [backend_type   : {Nothing, Some("Docker"), Some("Remote")},
     container_name : {Nothing, Some("project-container")},
     wsl_distro     : {Nothing, Some("Debian")},
     host           : {Nothing, Some("10.0.0.5")},
     port           : {Nothing, Some(9999)}]

\* The supervisor and its clients take no part in what follows.
Untouched ==
    UNCHANGED <<state, mode, process, stdin, stdout, rpc_request_id, stream,
                reader, tcp_request_id, children, sockets, spawned, opened,
                written, request, op, ret, reply, dropped, clones, python_path,
                tcp_config, unfinished, thread, input>>

MergeInit ==
    /\ Constructed
    /\ mode = "Subprocess"
    /\ input \in {<<project, global>> : project \in ProjectConfigs,
                                        global \in GlobalConfigs}
    /\ output = NoOutput

\* project.merge_with(&global), and the address read from the result.
MergeWith ==
    /\ output = NoOutput
    /\ LET merged == merge_with(input[1], input[2]) IN
       output' = [fn |-> "merge_with", merged |-> merged,
                  tcp_host |-> tcp_host(merged), tcp_port |-> tcp_port(merged)]
    /\ Untouched

\* The address read from the global configuration alone.
TcpAddress ==
    /\ output = NoOutput
    /\ output' = [fn |-> "tcp_port", tcp_host |-> tcp_host(input[2]),
                  tcp_port |-> tcp_port(input[2])]
    /\ Untouched

MergeNext == MergeWith \/ TcpAddress

MergeSpec == MergeInit /\ [][MergeNext]_vars

\* C36: merge_with(global) returns the global config with exactly the fields
\* the project sets replaced (backend type, container name, WSL distro, host,
\* port); every field the project leaves unset, and python_path and
\* auto_start, are those of the global config.  tcp_port() of a config is its
\* remote_port, or 9876 when that is unset.
C36_MergeOverridesSetFields ==
    LET project == input[1]
        global  == input[2]
    IN  /\ output.fn = "merge_with" =>
             LET merged == output.merged IN
             /\ merged.backend_type =
                   IF project.backend_type = Nothing
                   THEN global.backend_type ELSE project.backend_type[1]
             /\ merged.container_name =
                   IF project.container_name = Nothing
                   THEN global.container_name ELSE project.container_name
             /\ merged.wsl_distro =
                   IF project.wsl_distro = Nothing
                   THEN global.wsl_distro ELSE project.wsl_distro
             /\ merged.remote_host =
                   IF project.host = Nothing THEN global.remote_host ELSE project.host
             /\ merged.remote_port =
                   IF project.port = Nothing THEN global.remote_port ELSE project.port
             /\ merged.python_path = global.python_path
             /\ merged.auto_start = global.auto_start
             /\ DOMAIN merged = DOMAIN global
             /\ output.tcp_port =
                   IF merged.remote_port = Nothing THEN 9876 ELSE merged.remote_port[1]
        /\ output.fn = "tcp_port" =>
             output.tcp_port =
                IF global.remote_port = Nothing THEN 9876 ELSE global.remote_port[1]

\* test_project_override_merge: a project that sets the container name and
\* the port, merged into the Docker configuration.
C36_Witness ==
    /\ output.fn = "merge_with"
    /\ input[2] = BackendConfig_docker(Some("global-container"))
    /\ input[1] = [backend_type |-> Nothing, container_name |-> Some("project-container"),
                   wsl_distro |-> Nothing, host |-> Nothing, port |-> Some(9999)]
    /\ output.merged.backend_type = "Docker"
    /\ output.merged.container_name = Some("project-container")
    /\ output.tcp_port = 9999

\* ------------------------------------------------ backend/installer.rs
\* A &str is the sequence of its characters, each a string of length one.
Digit == {"0", "1", "2", "3", "4", "5", "6", "7", "8", "9"}

DigitValue(c) ==
    CASE c = "0" -> 0 [] c = "1" -> 1 [] c = "2" -> 2 [] c = "3" -> 3
      [] c = "4" -> 4 [] c = "5" -> 5 [] c = "6" -> 6 [] c = "7" -> 7
      [] c = "8" -> 8 [] c = "9" -> 9

\* version.split('.').collect(): the parts of rest, cur being the part that
\* is open.  The empty string has one part, the empty one.
RECURSIVE split_dot(_, _)
split_dot(rest, cur) ==
    IF rest = <<>> THEN <<cur>>
    ELSE IF Head(rest) = "." THEN <<cur>> \o split_dot(Tail(rest), <<>>)
    ELSE split_dot(Tail(rest), Append(cur, Head(rest)))

RECURSIVE strip_zeros(_)
strip_zeros(digits) ==
    IF digits # <<>> /\ Head(digits) = "0" THEN strip_zeros(Tail(digits)) ELSE digits

RECURSIVE to_int(_)
to_int(digits) ==
    IF digits = <<>> THEN 0
    ELSE to_int(SubSeq(digits, 1, Len(digits) - 1)) * 10 + DigitValue(digits[Len(digits)])

\* u32::MAX, 4294967295, digit by digit.
U32MaxDigits == <<"4", "2", "9", "4", "9", "6", "7", "2", "9", "5">>

\* The number written by digits (no leading zero) is above u32::MAX.
above_u32(digits) ==
    \/ Len(digits) > Len(U32MaxDigits)
    \/ /\ Len(digits) = Len(U32MaxDigits)
       /\ \E i \in 1..Len(digits) :
             /\ \A j \in 1..(i - 1) : digits[j] = U32MaxDigits[j]
             /\ DigitValue(digits[i]) > DigitValue(U32MaxDigits[i])

\* Result<u32, ParseIntError>.  A value of ten digits is kept as big: it is
\* above every value of nine digits, the minimums compared with included.
ParseErr == [ok |-> FALSE, big |-> FALSE, v |-> 0]

\* str::parse::<u32>: decimal digits after an optional "+"; an empty string,
\* a sign alone, any other character and a value above u32::MAX are errors.
parse_u32(part) ==
    LET body == IF part # <<>> /\ Head(part) = "+" THEN Tail(part) ELSE part
        n    == strip_zeros(body)
    IN  IF body = <<>> THEN ParseErr
        ELSE IF \E i \in 1..Len(body) : body[i] \notin Digit THEN ParseErr
        ELSE IF above_u32(n) THEN ParseErr
        ELSE IF Len(n) = Len(U32MaxDigits) THEN [ok |-> TRUE, big |-> TRUE, v |-> 0]
        ELSE [ok |-> TRUE, big |-> FALSE, v |-> to_int(n)]

\* Mutant of check_python_version_meets_minimum: the minor version is not
\* compared.
check_python_version_major_only(version, min_major, min_minor) ==
    LET parts == split_dot(version, <<>>) IN
    IF Len(parts) < 2 THEN FALSE
    ELSE LET major == parse_u32(parts[1])
             minor == parse_u32(parts[2])
         IN  IF ~major.ok THEN FALSE
             ELSE IF ~minor.ok THEN FALSE
             ELSE major.big \/ major.v >= min_major

check_python_version_meets_minimum(version, min_major, min_minor) ==
    LET parts == split_dot(version, <<>>) IN
    IF Len(parts) < 2 THEN FALSE
    ELSE LET major == parse_u32(parts[1])
             minor == parse_u32(parts[2])
         IN  IF ~major.ok THEN FALSE
             ELSE IF ~minor.ok THEN FALSE
             ELSE IF major.big \/ major.v > min_major THEN TRUE
             ELSE IF major.v = min_major /\ (minor.big \/ minor.v >= min_minor) THEN TRUE
             ELSE FALSE

\* The longest version string of the ones enumerated.
MaxLen == 4

\* The characters they are made of.
VersionChars == {"3", "1", "0", ".", "x", "+"}

RECURSIVE StringsOf(_)
StringsOf(len) ==
    IF len = 0 THEN {<<>>}
    ELSE LET shorter == StringsOf(len - 1) IN
         shorter \cup {Append(s, c) : s \in {x \in shorter : Len(x) = len - 1},
                                      c \in VersionChars}

\* The version strings of test_python_version_check.
TestVersions ==
    {<<"3", ".", "1", "0", ".", "0">>,
     <<"3", ".", "1", "1", ".", "5">>,
     <<"3", ".", "1", "2", ".", "0">>,
     <<"4", ".", "0", ".", "0">>,
     <<"3", ".", "9", ".", "0">>,
     <<"3", ".", "8", ".", "1", "5">>,
     <<"2", ".", "7", ".", "1", "8">>,
     <<"3", ".", "1", "0">>,
     <<"3">>,
     <<"i", "n", "v", "a", "l", "i", "d">>}

\* Components at and beyond the width of u32, with leading zeros, signed and
\* with a blank.
WideVersions ==
    {<<"4", "2", "9", "4", "9", "6", "7", "2", "9", "5", ".", "0">>,
     <<"4", "2", "9", "4", "9", "6", "7", "2", "9", "6", ".", "0">>,
     <<"3", ".", "4", "2", "9", "4", "9", "6", "7", "2", "9", "6">>,
     <<"3", ".", "0", "0", "0", "0", "0", "0", "0", "0", "1", "0">>,
     <<"+", "3", ".", "+", "1", "0">>,
     <<"-", "3", ".", "1", "0">>,
     <<"3", ".", " ", "1", "0">>}

Versions == StringsOf(MaxLen) \cup TestVersions \cup WideVersions

\* <<min_major, min_minor>>: the minimum backend/installer.rs asks for, and
\* two more.
Minimums == {<<3, 10>>, <<3, 0>>, <<1, 3>>}

VersionInit ==
    /\ Constructed
    /\ mode = "Subprocess"
    /\ input \in {<<version, min[1], min[2]>> : version \in Versions, min \in Minimums}
    /\ output = NoOutput

CheckVersion ==
    /\ output = NoOutput
    /\ output' = [fn |-> "check_python_version_meets_minimum",
                  value |-> check_python_version_meets_minimum(input[1], input[2], input[3])]
    /\ Untouched

VersionNext == CheckVersion

VersionSpec == VersionInit /\ [][VersionNext]_vars

\* A component is numeric: it is what parse::<u32> reads as a number, that
\* is decimal digits, after an optional "+", whose value fits 32 bits.
IsNumeric(part) ==
    LET body == IF part # <<>> /\ Head(part) = "+" THEN Tail(part) ELSE part IN
    /\ body # <<>>
    /\ \A i \in 1..Len(body) : body[i] \in Digit
    /\ ~above_u32(strip_zeros(body))

\* C37: check_python_version_meets_minimum(version, min_major, min_minor) is
\* true exactly when the version has at least two dot-separated components,
\* the first two are numeric, and (major, minor) is greater than or equal to
\* (min_major, min_minor) in lexicographic order; a version with fewer than
\* two components, or whose major or minor is not numeric, yields false.
C37_VersionMeetsMinimum ==
    output.fn = "check_python_version_meets_minimum" =>
       LET parts     == split_dot(input[1], <<>>)
           min_major == input[2]
           min_minor == input[3]
           dots      == Cardinality({i \in 1..Len(input[1]) : input[1][i] = "."})
       IN  /\ Len(parts) = dots + 1
           /\ output.value =
                 (/\ dots >= 1
                  /\ IsNumeric(parts[1])
                  /\ IsNumeric(parts[2])
                  /\ LET major == parse_u32(parts[1])
                         minor == parse_u32(parts[2])
                     IN  \/ major.big
                         \/ major.v > min_major
                         \/ major.v = min_major /\ (minor.big \/ minor.v >= min_minor))
           /\ (dots = 0 => output.value = FALSE)
           /\ (dots >= 1 /\ ~(IsNumeric(parts[1]) /\ IsNumeric(parts[2]))
                 => output.value = FALSE)

\* "3.10" against the minimum 3.10: the major versions are equal and the
\* minor version decides.
C37_Witness ==
    /\ output.fn = "check_python_version_meets_minimum"
    /\ input = <<<<"3", ".", "1", "0">>, 3, 10>>
    /\ output.value = TRUE

====
